---------------------------- MODULE Spec2Model ----------------------------
(***************************************************************************)
(* State-machine model of the activity store of fitness-dashboard and of   *)
(* the three handlers that write to it:                                    *)
(*   - POST /api/activities/upload      (backend/src/index.ts)             *)
(*   - POST /api/strava/sync            (StravaService.syncActivities)     *)
(*   - POST /api/strava/fetch-details   (backend/src/index.ts)             *)
(* together with auto-sync.sh, which calls fetch-details in a loop, and    *)
(* the pure functions the handlers apply to what they store (FIT           *)
(* normalisation, sport categories, workout classifiers), and of the       *)
(* endpoints that read the store: GET /api/stats, POST                     *)
(* /api/activities/analyze and GET /api/stats/predictions.                 *)
(* Every await of a handler is one step, so that other requests interleave *)
(* exactly where the Node event loop lets them.                            *)
(***************************************************************************)
EXTENDS Integers, Sequences, FiniteSets, TLC

(***************************************************************************)
(* Program constants.                                                      *)
(***************************************************************************)
toleranceMs == 2 * 60 * 1000
MAX_DETAILED_PER_SYNC == 80
perPage == 100
FetchDetailsLimit == 80
max_syncs == 15

(***************************************************************************)
(* Bounds of the model.                                                    *)
(***************************************************************************)
MaxUploads == 1        \* files uploaded in one behaviour of Spec
MaxFitLaps == 2        \* laps of an uploaded file: 0..MaxFitLaps
MaxApiLaps == 2        \* laps the upstream reports for the run: 0..MaxApiLaps
NumRuns == 2           \* slots for sync requests
Spacing == 600000      \* ms between the start times of upstream activities
BudgetListLen == 81    \* length of the upstream list of SpecBudget
BudgetUploads == 1     \* files uploaded in one behaviour of SpecBudget
MaxStored == 11        \* documents of the collection of SpecStats: 9..MaxStored
MaxHalfRuns == 2       \* running activities in either half of that collection

Runs == 1..NumRuns

(***************************************************************************)
(* The upstream (Strava) side.  An element of the list is what the         *)
(* paginated list call returns for one activity (id, type, start_date,     *)
(* name, distance, moving_time) together with what the per-activity detail *)
(* call adds (description, laps, splits_metric, best_efforts, gear, map,   *)
(* suffer_score).                                                          *)
(***************************************************************************)
\* Texts are sequences of characters, so that the pattern tests of the
\* classifiers are decided on the characters themselves.
MorningRun == <<"M","o","r","n","i","n","g"," ","R","u","n">>
MorningRide == <<"M","o","r","n","i","n","g"," ","R","i","d","e">>
NiceDay == <<"n","i","c","e"," ","d","a","y">>

\* One lap of the detail payload: distance in m, moving_time in s,
\* average_speed in cm/s (the classifiers use ratios of speeds only),
\* average_cadence per leg.
ApiLap(distance, moving_time, average_speed) ==
  [ distance |-> distance, moving_time |-> moving_time,
    average_speed |-> average_speed, average_cadence |-> 85 ]

ApiLaps(n) == [i \in 1..n |-> ApiLap(1000, 300, 333)]

ApiActivity(k, type, nlaps) ==
  [ id            |-> 100 + k,
    type          |-> type,
    start_date    |-> k * Spacing,
    name          |-> IF type = "Run" THEN MorningRun ELSE MorningRide,
    distance      |-> 5000,
    moving_time   |-> 1500,
    average_heartrate |-> 150,
    average_cadence |-> 85,
    description   |-> NiceDay,
    laps          |-> ApiLaps(nlaps),
    splits_metric |-> <<[split |-> 1, distance |-> 1000, moving_time |-> 300]>>,
    best_efforts  |-> <<[name |-> "1K", distance |-> 1000, moving_time |-> 290]>>,
    gear          |-> "g1",
    polyline      |-> "poly",
    suffer_score  |-> 40 ]

\* The lists of Spec: one run and one ride, the run with 0..MaxApiLaps laps.
SmallLists ==
  { <<ApiActivity(1, "Run", n), ApiActivity(2, "Ride", 2)>> : n \in 0..MaxApiLaps }

\* Words of names and descriptions: one for each line of the text tests of
\* the classifiers, and two that match none.
TextWords ==
  { <<"I","n","t","e","r","v","a","l","s">>,
    <<"T","e","m","p","o">>,
    <<"L","o","n","g">>,
    <<"E","a","s","y">>,
    <<"R","e","c","o","v","e","r","y">>,
    <<"R","a","c","e">>,
    <<"F","a","r","t","l","e","k">>,
    <<"H","i","l","l">>,
    <<"S","t","r","i","d","e","s">>,
    <<"5","x","1","0","0","0">>,
    MorningRun, NiceDay }

\* Lap lists of the detail payload: none, one, two alike, one of two at the
\* 200 m limit, speeds 20 % and 10 % apart, paces 5 min/km apart, a lap
\* without moving time, and slow laps followed by a short one.
LapLists ==
  { <<>>,
    <<ApiLap(1000, 300, 333)>>,
    <<ApiLap(1000, 300, 333), ApiLap(1000, 300, 333)>>,
    <<ApiLap(200, 60, 400), ApiLap(1000, 300, 300)>>,
    <<ApiLap(1000, 300, 300), ApiLap(1000, 420, 360)>>,
    <<ApiLap(1000, 300, 300), ApiLap(1000, 345, 330)>>,
    <<ApiLap(1000, 240, 300), ApiLap(1000, 540, 310)>>,
    <<ApiLap(1000, 0, 300), ApiLap(1000, 300, 300)>>,
    <<ApiLap(1000, 390, 300), ApiLap(1000, 390, 300), ApiLap(100, 30, 500)>> }

\* The lists of SpecClassify: one run; every pair of words as name and
\* description with laps, distance and heart rate that the later tests would
\* tag otherwise, and every lap list with distances and heart rates on
\* either side of the thresholds under a text that matches no test.
ClassifyLists ==
  { << [ ApiActivity(1, "Run", 0) EXCEPT
           !.name = name, !.description = description, !.laps = shape[1],
           !.distance = shape[2], !.average_heartrate = shape[3] ] >> :
      name \in TextWords, description \in TextWords,
      shape \in { << <<ApiLap(1000, 300, 333), ApiLap(1000, 300, 333)>>, 5000, 150 >>,
                  << <<ApiLap(1000, 300, 300), ApiLap(1000, 420, 360)>>, 16000, 130 >> } }
  \cup
  { << [ ApiActivity(1, "Run", 0) EXCEPT
           !.laps = laps, !.distance = distance, !.average_heartrate = hr ] >> :
      laps \in LapLists, distance \in {5000, 10000, 16000}, hr \in {130, 150} }

\* The lists of SpecVariance: one run under a text that matches no test, with
\* laps whose speeds are equal, 8 %, 9 %, 15 % and 16 % apart (a lap of 200 m
\* at another speed besides), and distances and heart rates on and next to
\* the thresholds.
VarianceLists ==
  { << [ ApiActivity(1, "Run", 0) EXCEPT
           !.laps = laps, !.distance = distance, !.average_heartrate = hr ] >> :
      laps \in { <<ApiLap(1000, 300, 300), ApiLap(1000, 300, 300)>>,
                 <<ApiLap(1000, 300, 300), ApiLap(1000, 300, 324)>>,
                 <<ApiLap(1000, 300, 327), ApiLap(1000, 300, 300)>>,
                 <<ApiLap(1000, 300, 300), ApiLap(1000, 300, 345)>>,
                 <<ApiLap(1000, 300, 348), ApiLap(1000, 300, 300)>>,
                 <<ApiLap(1000, 300, 300), ApiLap(200, 40, 500), ApiLap(1000, 300, 324)>> },
      distance \in {7999, 8000, 15000, 15001},
      hr \in {139, 140} }

\* The list of SpecBudget: more running activities than the detail budget.
BudgetList == [k \in 1..BudgetListLen |-> ApiActivity(k, "Run", 2)]

\* Answers of the upstream to one request.
Answers(mode) ==
  CASE mode = "any"     -> {"ok", "429", "error"}
    [] mode = "up"      -> {"ok"}
    [] mode = "limited" -> {"429"}
    [] OTHER            -> {"error"}

\* The HTTP status of an answer.
Status(answer) ==
  CASE answer = "ok"  -> 200
    [] answer = "429" -> 429
    [] OTHER          -> 500

(***************************************************************************)
(* State.                                                                  *)
(*   env    the environment of one behaviour: the upstream list, how the   *)
(*          upstream answers list and detail requests, which files the     *)
(*          user has and how many are uploaded, whether requests overlap   *)
(*   store  the activities collection, in insertion order; the index of a  *)
(*          document stands for its _id                                    *)
(*   sync   per sync request: position and local variables of              *)
(*          syncActivities, the number of detail calls it has issued and   *)
(*          the statuses other than 2xx its detail calls were answered     *)
(*   fd     position and local variables of the fetch-details handler      *)
(*   auto   auto-sync.sh: position and the shell variables sync_count and   *)
(*          remaining (-1 while it is unset)                               *)
(*   tmp    the files in the upload directory of multer                    *)
(*   out    the body of the last response of the statistics endpoints      *)
(*   last   what the last step did (the handlers' log lines and responses) *)
(***************************************************************************)
VARIABLES env, store, sync, fd, auto, tmp, out, last

vars == <<env, store, sync, fd, auto, tmp, out, last>>

NoId == 0

IdleSync ==
  [ pc |-> "idle", page |-> 1, idx |-> 0, syncedCount |-> 0, detailedCount |-> 0,
    mergedCount |-> 0, detailCalls |-> 0, refusals |-> {}, hasDetailedData |-> FALSE,
    fitActivity |-> NoId, fitLaps |-> 0 ]

\* No statistics endpoint has answered yet.
NoResponse == [ endpoint |-> "" ]

IdleFd == [ pc |-> "idle", queue |-> <<>>, stravaIds |-> <<>>, updated |-> 0, calls |-> 0 ]

AutoOff == [ pc |-> "off", sync_count |-> 0, remaining |-> -1 ]

Event(op, b, rec, n) == [ op |-> op, b |-> b, rec |-> rec, n |-> n ]

Ids == DOMAIN store

\* The upstream activity with external id sid.
ApiById(sid) == CHOOSE a \in { env.upstream[k] : k \in DOMAIN env.upstream } : a.id = sid


(***************************************************************************)
(* The persistence layer (mongoose model Activity).                        *)
(***************************************************************************)
\* Sub-document schemas are strict: a key that is no path of the schema is
\* dropped when the value is cast.  The sync run and fetch-details hand over
\* upstream-shaped objects (moving_time, elapsed_time, pr_rank, lap_index...).
CastSplit(s) == [ split |-> s.split, distance |-> s.distance ]

CastBestEffort(e) == [ name |-> e.name, distance |-> e.distance ]

\* A lap as the lap schema stores it.  Of the keys the sync run hands over
\* (lap_index, distance, moving_time, average_speed, average_cadence, ...)
\* and of the keys of an upstream lap, only distance is a path of the schema;
\* index and avgCadence stay undefined (0 here).
CastLap(lap) == [ index |-> 0, distance |-> lap.distance, avgCadence |-> 0 ]

CastLaps(xs) == [ i \in DOMAIN xs |-> CastLap(xs[i]) ]

CastSplits(xs) == [ i \in DOMAIN xs |-> CastSplit(xs[i]) ]

CastBestEfforts(xs) == [ i \in DOMAIN xs |-> CastBestEffort(xs[i]) ]

\* Schema defaults of a document created without these paths.  A path that
\* is undefined in the database is "" for a string, <<>> for a text, 0 for a
\* number; the confidence of workoutAnalysis and averagePace (min/km) are
\* fractions <<num, den>>.
NewDocument ==
  [ stravaId |-> NoId, source |-> "strava", fileName |-> "",
    activityType |-> "", activityCategory |-> "other",
    workoutType |-> "", workoutAnalysis |-> [ type |-> "", confidence |-> <<0, 1>> ],
    name |-> <<>>, description |-> <<>>, startTime |-> 0,
    duration |-> 0, distance |-> 0, averageHR |-> 0, averagePace |-> <<0, 1>>,
    avgCadence |-> 0, avgPower |-> 0, avgStanceTime |-> 0,
    records |-> <<>>, laps |-> <<>>, splitsMetric |-> <<>>, bestEfforts |-> <<>>,
    gear |-> "", polyline |-> "", sufferScore |-> 0,
    hasDetailedData |-> FALSE ]

\* doc with the paths of update set ($set of an update document; a path the
\* update document leaves undefined is not part of it).
SetFields(doc, update) ==
  [ f \in DOMAIN doc |-> IF f \in DOMAIN update THEN update[f] ELSE doc[f] ]

\* Activity.findOne({ stravaId }): the ids of the matching documents.
FindByStravaId(st, sid) == { i \in DOMAIN st : st[i].stravaId = sid }

\* Mutant of DuplicateKey: the index does not enforce uniqueness.
DuplicateKeyNotEnforced(st, rec, sid) == FALSE

\* The unique sparse index on stravaId: writing sid into document rec is
\* refused (E11000) when another document already carries sid.
DuplicateKey(st, rec, sid) ==
  \E j \in DOMAIN st : j # rec /\ st[j].stravaId = sid

(***************************************************************************)
(* File upload.                                                            *)
(***************************************************************************)
\* The display label FileParserService.mapSportType gives a FIT sport (the
\* label without its emoji prefix and the blank after it).
mapSportType(sport) ==
  CASE sport = "running"           -> "Running"
    [] sport = "cycling"           -> "Ciclismo"
    [] sport = "swimming"          -> "Natacion"
    [] sport = "walking"           -> "Caminata"
    [] sport = "hiking"            -> "Senderismo"
    [] sport = "strength_training" -> "Fuerza"
    [] sport = "cardio"            -> "Cardio"
    [] sport = "other"             -> "Otro"
    [] sport = "treadmill"         -> "Cinta"
    [] sport = "generic"           -> "Actividad"
    [] sport = "fitness_equipment" -> "Maquina"
    [] OTHER                       -> sport

\* The characters of a sport name or of a label, lower-cased (the emoji
\* prefix of a label and the accents of "Natación" and "Máquina" match no
\* keyword).
Letters(label) ==
  CASE label \in {"Running", "running"} -> <<"r","u","n","n","i","n","g">>
    [] label = "Ciclismo"   -> <<"c","i","c","l","i","s","m","o">>
    [] label = "Natacion"   -> <<"n","a","t","a","c","i","o","n">>
    [] label = "Caminata"   -> <<"c","a","m","i","n","a","t","a">>
    [] label = "Senderismo" -> <<"s","e","n","d","e","r","i","s","m","o">>
    [] label = "Fuerza"     -> <<"f","u","e","r","z","a">>
    [] label = "Cardio"     -> <<"c","a","r","d","i","o">>
    [] label = "Otro"       -> <<"o","t","r","o">>
    [] label = "Cinta"      -> <<"c","i","n","t","a">>
    [] label = "Actividad"  -> <<"a","c","t","i","v","i","d","a","d">>
    [] label = "Maquina"    -> <<"m","a","q","u","i","n","a">>
    [] label = "cycling"    -> <<"c","y","c","l","i","n","g">>
    [] label = "swimming"   -> <<"s","w","i","m","m","i","n","g">>
    [] label = "walking"    -> <<"w","a","l","k","i","n","g">>
    [] label = "hiking"     -> <<"h","i","k","i","n","g">>
    [] label = "strength_training" ->
         <<"s","t","r","e","n","g","t","h","_","t","r","a","i","n","i","n","g">>
    [] label = "treadmill"  -> <<"t","r","e","a","d","m","i","l","l">>
    [] label = "rowing"     -> <<"r","o","w","i","n","g">>
    [] OTHER                -> <<>>

Includes(text, kw) ==
  \E i \in 0..(Len(text) - Len(kw)) : SubSeq(text, i + 1, i + Len(kw)) = kw

categorizeActivityType(type) ==
  LET t == Letters(type) IN
  IF Includes(t, <<"r","u","n">>) \/ Includes(t, <<"t","r","e","a","d","m","i","l","l">>)
    THEN "cardio_running"
  ELSE IF Includes(t, <<"c","y","c","l","i","n","g">>) \/ Includes(t, <<"r","i","d","e">>)
    THEN "cardio_cycling"
  ELSE IF Includes(t, <<"s","t","r","e","n","g","t","h">>) \/ Includes(t, <<"w","e","i","g","h","t">>)
    THEN "strength"
  ELSE IF Includes(t, <<"s","w","i","m">>)
    THEN "cardio_swimming"
  ELSE IF Includes(t, <<"w","a","l","k">>) \/ Includes(t, <<"h","i","k","e">>)
    THEN "cardio_walking"
  ELSE "other"

\* A file the user has: the name it is uploaded under and what goes wrong
\* when it is read and decoded (fault), followed by what it decodes to.
\* A FIT file decodes to the session of the file (start_time, sport, the
\* number of its laps, and the per-leg cadence avg_cadence that the session,
\* every lap and every point report; 0 when the file has none).  The FIT
\* files of Spec are runs that start on either edge of the tolerance window
\* of the first upstream activity, and rides that start with the second.
FitStarts ==
  { Spacing - toleranceMs - 1, Spacing - toleranceMs,
    Spacing + toleranceMs, Spacing + toleranceMs + 1 }

FitFiles ==
  [ originalname : {"activity.fit"}, fault : {"none"},
    start_time : FitStarts, sport : {"running"}, laps : 0..MaxFitLaps,
    avg_cadence : {85} ]
  \cup [ originalname : {"activity.fit"}, fault : {"none"},
         start_time : {2 * Spacing}, sport : {"cycling"}, laps : 0..MaxFitLaps,
         avg_cadence : {85} ]

\* The files of SpecUpload: every sport of the label table and one that is
\* not in it, with and without cadence.
SportFiles ==
  [ originalname : {"activity.fit"}, fault : {"none"},
    start_time : {Spacing + toleranceMs},
    sport : { "running", "treadmill", "cycling", "strength_training", "swimming",
              "walking", "hiking", "rowing" },
    laps : {2}, avg_cadence : {0, 85, 90} ]

\* The file of SpecBudget.
BudgetFile ==
  [ originalname |-> "activity.fit", fault |-> "none",
    start_time |-> Spacing + toleranceMs, sport |-> "running", laps |-> 1,
    avg_cadence |-> 85 ]

Carrera == <<"C","a","r","r","e","r","a">>

\* The track points of a GPX file, by their <time> in ms: none, one, two and
\* three in the order of their times, and two and three out of it (a track
\* edited or joined by hand, a device whose clock was set during the run).
GpxPoints ==
  { <<>>,
    <<Spacing>>,
    <<Spacing, Spacing + 1500000>>,
    <<Spacing + 1500000, Spacing>>,
    <<Spacing, Spacing + 700000, Spacing + 1500000>>,
    <<Spacing + 700000, Spacing + 1500000, Spacing>> }

\* The files of SpecDecode: FIT files that cannot be read, that the binary
\* decoder rejects or whose normalisation throws, GPX files that are sound,
\* unreadable or malformed, and a file that is neither.
DecodeFiles ==
  [ originalname : {"activity.fit"}, fault : {"none", "unreadable", "decode", "normalise"},
    start_time : {Spacing + toleranceMs}, sport : {"running"}, laps : {1},
    avg_cadence : {85} ]
  \cup [ originalname : {"track.gpx"}, fault : {"none", "unreadable", "xml"},
         type : {"running", "cycling"}, points : GpxPoints ]
  \cup [ originalname : {"notes.txt"}, fault : {"none"} ]

\* Every file of the model; env.files are those the user of one behaviour has.
AllFiles == FitFiles \cup SportFiles \cup {BudgetFile} \cup DecodeFiles

\* file.originalname.endsWith(extension)
endsWith(originalname, extension) ==
  <<originalname, extension>> \in { <<"activity.fit", ".fit">>, <<"track.gpx", ".gpx">> }

\* FileParserService.normalizeFitData: distance arrives in km, cadence per
\* leg.
normalizeFitData(file) ==
  LET cadence == IF file.avg_cadence # 0 THEN file.avg_cadence * 2 ELSE 0 IN
  [ activityType |-> mapSportType(file.sport),
    name |-> IF file.sport = "running" THEN Carrera ELSE Letters(file.sport),
    startTime |-> file.start_time,
    duration |-> 1480,
    distance |-> 5 * 1000,
    avgCadence |-> cadence,
    avgPower |-> 250,
    avgStanceTime |-> 240,
    laps |-> [ i \in 1..file.laps |->
                 [ index |-> i, distance |-> 1, avgCadence |-> cadence ] ],
    records |-> << [ elapsedTime |-> 1, cadence |-> cadence ],
                   [ elapsedTime |-> 2, cadence |-> cadence ] >> ]

\* FileParserService.calculateDuration: seconds from the first point to the
\* last (the times of the model are whole seconds).
calculateDuration(points) ==
  IF Len(points) < 2 THEN 0
  ELSE LET start == points[1]
           end == points[Len(points)]
       IN  (end - start) \div 1000

\* FileParserService.normalizeGpxData for a file with a track (the points of
\* the model are 100 m apart).
normalizeGpxData(file) ==
  [ activityType |-> mapSportType(file.type),
    name |-> Letters(file.type),
    startTime |-> IF file.points = <<>> THEN 0 ELSE file.points[1],
    duration |-> calculateDuration(file.points),
    distance |-> IF file.points = <<>> THEN 0 ELSE 100 * (Len(file.points) - 1) ]

\* How parseFitFile and parseGpxFile end for a file:
\*   "rejected"  the promise is rejected (readFile error, decoder error,
\*               exception of the normalisation, exception of the XML
\*               parser) before the file is unlinked
\*   "invalid"   the file is decoded and unlinked, and Activity.create
\*               rejects the result, which has no startTime (required): a
\*               track without points, a document the XML parser accepted
\*               although it has no gpx element
\*   "created"   the file is decoded and unlinked and the document is created
\* A name that ends neither in .fit nor in .gpx is answered 400.
ParseOutcomes(file) ==
  IF endsWith(file.originalname, ".fit")
    THEN IF file.fault = "none" THEN {"created"} ELSE {"rejected"}
  ELSE IF endsWith(file.originalname, ".gpx")
    THEN CASE file.fault = "unreadable" -> {"rejected"}
           [] file.fault = "xml" -> {"rejected", "invalid"}
           [] OTHER -> IF file.points = <<>> THEN {"invalid"} ELSE {"created"}
  ELSE {"unsupported"}

\* The document Activity.create inserts for the upload.
UploadDocument(file) ==
  LET activityData == IF endsWith(file.originalname, ".fit")
                        THEN normalizeFitData(file)
                        ELSE normalizeGpxData(file)
  IN
  SetFields(NewDocument,
    activityData @@
    [ source |-> "upload",
      activityCategory |-> categorizeActivityType(activityData.activityType),
      fileName |-> file.originalname ])

Uploaded == { i \in Ids : store[i].fileName # "" }

\* POST /api/activities/upload: multer has written the file to the upload
\* directory when the handler runs; only the parsers unlink it, as their
\* last step.  env.maxUploads bounds the files a behaviour leaves in the
\* store and in the upload directory.
Upload(file) ==
  /\ file \in env.files
  /\ Cardinality(Uploaded) + Cardinality(tmp) < env.maxUploads
  /\ \E outcome \in ParseOutcomes(file) :
       CASE outcome = "unsupported" ->
              /\ store' = store
              /\ tmp' = tmp \cup {file}
              /\ last' = Event("uploadRejected", NoId, NoId, 400)
         [] outcome = "rejected" ->
              /\ store' = store
              /\ tmp' = tmp \cup {file}
              /\ last' = Event("uploadFailed", NoId, NoId, 500)
         [] outcome = "invalid" ->
              /\ store' = store
              /\ tmp' = tmp
              /\ last' = Event("uploadFailed", NoId, NoId, 500)
         [] OTHER ->
              /\ store' = Append(store, UploadDocument(file))
              /\ tmp' = tmp
              /\ last' = Event("upload", NoId, Len(store) + 1, 0)
  /\ UNCHANGED <<env, sync, fd, auto, out>>

(***************************************************************************)
(* The workout classifiers of StravaService.                               *)
(***************************************************************************)
UpperCase ==
  <<"A","B","C","D","E","F","G","H","I","J","K","L","M",
    "N","O","P","Q","R","S","T","U","V","W","X","Y","Z">>

LowerCase ==
  <<"a","b","c","d","e","f","g","h","i","j","k","l","m",
    "n","o","p","q","r","s","t","u","v","w","x","y","z">>

\* String.prototype.toLowerCase
toLowerCase(text) ==
  [ i \in DOMAIN text |->
      IF \E k \in DOMAIN UpperCase : UpperCase[k] = text[i]
        THEN LowerCase[CHOOSE k \in DOMAIN UpperCase : UpperCase[k] = text[i]]
        ELSE text[i] ]

Digits == {"0","1","2","3","4","5","6","7","8","9"}

\* /x\d+|\dx/
RepeatCount(text) ==
  \E i \in 1..(Len(text) - 1) :
    \/ text[i] = "x" /\ text[i + 1] \in Digits
    \/ text[i] \in Digits /\ text[i + 1] = "x"

\* /lt\s/
LtBlank(text) ==
  \E i \in 1..(Len(text) - 2) :
    text[i] = "l" /\ text[i + 1] = "t" /\ text[i + 2] = " "

\* classifyWorkoutBasic: the tag of an activity known by its summary only.
classifyWorkoutBasic(activity) ==
  LET name == toLowerCase(activity.name) IN
  IF Includes(name, <<"i","n","t","e","r","v","a","l">>)
     \/ Includes(name, <<"s","e","r","i","e","s">>)
     \/ Includes(name, <<"r","e","p","e","a","t">>)
    THEN "intervals"
  ELSE IF Includes(name, <<"t","e","m","p","o">>)
     \/ Includes(name, <<"t","h","r","e","s","h","o","l","d">>)
    THEN "tempo"
  ELSE IF Includes(name, <<"l","s","d">>)
     \/ Includes(name, <<"l","o","n","g">>)
    THEN "long_run"
  ELSE IF Includes(name, <<"e","a","s","y">>)
     \/ Includes(name, <<"r","e","c","o","v","e","r","y">>)
     \/ Includes(name, <<"r","e","c","u","p","e","r">>)
    THEN "easy"
  ELSE IF Includes(name, <<"r","a","c","e">>)
     \/ Includes(name, <<"c","a","r","r","e","r","a">>)
    THEN "race"
  ELSE IF Includes(name, <<"f","a","r","t","l","e","k">>)
    THEN "fartlek"
  ELSE IF Includes(name, <<"s","t","r","i","d","e">>)
     \/ Includes(name, <<"p","r","o","g","r","e","s">>)
    THEN "easy_strides"
  ELSE "general"

\* The average speeds of the laps longer than 200 m.
LapSpeeds(laps) ==
  { laps[i].average_speed : i \in { j \in DOMAIN laps : laps[j].distance > 200 } }

\* Mutant of SignificantLaps: a lap of 200 m counts.
SignificantLapsFrom200(laps) == SelectSeq(laps, LAMBDA lap : lap.distance >= 200)

SignificantLaps(laps) == SelectSeq(laps, LAMBDA lap : lap.distance > 200)

Max(S) == CHOOSE x \in S : \A y \in S : y <= x

Min(S) == CHOOSE x \in S : \A y \in S : x <= y

\* The text tests of classifyWorkout, in their order; "" when none matches.
\* The pattern /long\s*(slow)?\s*(run|distance)?/ matches exactly the texts
\* that contain "long", all that follows being optional.
TextTag(text) ==
  IF Includes(text, <<"i","n","t","e","r","v","a","l">>)
     \/ Includes(text, <<"s","e","r","i","e","s">>)
     \/ Includes(text, <<"r","e","p","e","a","t">>)
     \/ RepeatCount(text)
    THEN "intervals"
  ELSE IF Includes(text, <<"t","e","m","p","o">>)
     \/ Includes(text, <<"t","h","r","e","s","h","o","l","d">>)
     \/ Includes(text, <<"u","m","b","r","a","l">>)
     \/ LtBlank(text)
    THEN "tempo"
  ELSE IF Includes(text, <<"l","s","d">>)
     \/ Includes(text, <<"l","o","n","g">>)
     \/ Includes(text, <<"t","i","r","a","d","a">>)
    THEN "long_run"
  ELSE IF Includes(text, <<"e","a","s","y">>)
     \/ Includes(text, <<"f","á","c","i","l">>)
     \/ Includes(text, <<"f","a","c","i","l">>)
     \/ Includes(text, <<"r","e","c","o","v","e","r","y">>)
     \/ Includes(text, <<"r","e","c","u","p","e","r">>)
    THEN "easy"
  ELSE IF Includes(text, <<"r","a","c","e">>)
     \/ Includes(text, <<"c","a","r","r","e","r","a">>)
     \/ Includes(text, <<"c","o","m","p","e","t","e","n","c","i","a">>)
     \/ Includes(text, <<"p","k">>)
     \/ Includes(text, <<"p","a","r","k","r","u","n">>)
    THEN "race"
  ELSE IF Includes(text, <<"f","a","r","t","l","e","k">>)
    THEN "fartlek"
  ELSE IF Includes(text, <<"h","i","l","l">>)
     \/ Includes(text, <<"c","u","e","s","t","a">>)
     \/ Includes(text, <<"s","u","b","i","d","a">>)
    THEN "hills"
  ELSE IF Includes(text, <<"s","t","r","i","d","e">>)
     \/ Includes(text, <<"p","r","o","g","r","e","s">>)
    THEN "easy_strides"
  ELSE ""

\* Mutant of LapTag: a variation of exactly 15 or 8 counts.
LapTagInclusive(activity) ==
  LET significant == SignificantLaps(activity.laps)
      paces == LapSpeeds(activity.laps)
      maxPace == Max(paces)
      minPace == Min(paces)
      Reaches(percent) ==
        IF minPace = 0 THEN maxPace > 0
        ELSE 100 * (maxPace - minPace) >= percent * minPace
  IN  IF Len(activity.laps) > 1 /\ Len(significant) >= 2 /\ Reaches(15) THEN "intervals"
      ELSE IF Len(activity.laps) > 1 /\ Len(significant) >= 2 /\ Reaches(8) THEN "tempo"
      ELSE ""

\* The lap test of classifyWorkout; "" when it gives no tag.  variation is
\* ((maxPace - minPace) / minPace) * 100 in floating point: a division by 0
\* gives Infinity, or NaN for 0 / 0.
LapTag(activity) ==
  LET significant == SignificantLaps(activity.laps)
      paces == LapSpeeds(activity.laps)
      maxPace == Max(paces)
      minPace == Min(paces)
      Exceeds(percent) ==
        IF minPace = 0 THEN maxPace > 0
        ELSE 100 * (maxPace - minPace) > percent * minPace
  IN  IF Len(activity.laps) > 1 /\ Len(significant) >= 2 /\ Exceeds(15) THEN "intervals"
      ELSE IF Len(activity.laps) > 1 /\ Len(significant) >= 2 /\ Exceeds(8) THEN "tempo"
      ELSE ""

\* The last lines of classifyWorkout: distance and heart rate.
GrossTag(activity) ==
  LET distance == activity.distance
      avgHR == activity.average_heartrate
  IN  IF distance > 15000 THEN "long_run"
      ELSE IF distance < 8000 /\ avgHR < 140 THEN "easy"
      ELSE "general"

\* The text of classifyWorkout: `${name} ${description}`, lower-cased.
WorkoutText(activity) ==
  toLowerCase(activity.name) \o <<" ">> \o toLowerCase(activity.description)

\* Mutant of classifyWorkout: the laps are looked at before the text.
classifyWorkoutLapsFirst(activity) ==
  IF LapTag(activity) # "" THEN LapTag(activity)
  ELSE IF TextTag(WorkoutText(activity)) # "" THEN TextTag(WorkoutText(activity))
  ELSE GrossTag(activity)

\* classifyWorkout: the tag of an activity known with its detail.
classifyWorkout(activity) ==
  IF TextTag(WorkoutText(activity)) # "" THEN TextTag(WorkoutText(activity))
  ELSE IF LapTag(activity) # "" THEN LapTag(activity)
  ELSE GrossTag(activity)

\* Exact fractions <<numerator, denominator>> with a positive denominator,
\* for the paces in min/km that analyzeWorkout computes in floating point.
RECURSIVE GCD(_, _)
GCD(a, b) == IF b = 0 THEN a ELSE GCD(b, a % b)

Frac(n, d) == LET g == GCD(IF n < 0 THEN -n ELSE n, d) IN <<n \div g, d \div g>>

FracAdd(p, q) == Frac(p[1] * q[2] + q[1] * p[2], p[2] * q[2])

FracSub(p, q) == Frac(p[1] * q[2] - q[1] * p[2], p[2] * q[2])

FracLess(p, q) == p[1] * q[2] < q[1] * p[2]

RECURSIVE FracSum(_)
FracSum(ps) == IF ps = <<>> THEN <<0, 1>> ELSE FracAdd(Head(ps), FracSum(Tail(ps)))

\* (lap.moving_time / 60) / (lap.distance / 1000), or 0.
LapPace(lap) ==
  IF lap.distance > 0 /\ lap.moving_time > 0
    THEN Frac(lap.moving_time * 50, lap.distance * 3)
    ELSE <<0, 1>>

\* analyzeWorkout: type and confidence of the variance analysis (the paces it
\* reports besides are not modelled).
analyzeWorkout(activity) ==
  LET laps == activity.laps
      unknown == [ type |-> "unknown", confidence |-> <<0, 1>> ]
      significantLaps == SignificantLaps(laps)
      all == [ i \in DOMAIN significantLaps |-> LapPace(significantLaps[i]) ]
      paces == SelectSeq(all, LAMBDA pc : pc[1] > 0)
      P == { paces[i] : i \in DOMAIN paces }
      fastestLapPace == CHOOSE x \in P : \A y \in P : ~FracLess(y, x)
      slowestLapPace == CHOOSE x \in P : \A y \in P : ~FracLess(x, y)
      total == FracSum(paces)
      avgPace == Frac(total[1], total[2] * Len(paces))
      paceDiff == FracSub(slowestLapPace, fastestLapPace)
      scaled == FracAdd(<<60, 1>>, Frac(paceDiff[1] * 10, paceDiff[2]))
  IN
  IF Len(laps) < 2 THEN unknown
  ELSE IF Len(significantLaps) < 2 THEN unknown
  ELSE IF Len(paces) < 2 THEN unknown
  ELSE IF FracLess(<<3, 2>>, paceDiff)
    THEN [ type |-> "intervals",
           confidence |-> IF FracLess(<<95, 1>>, scaled) THEN <<95, 1>> ELSE scaled ]
  ELSE IF FracLess(<<1, 2>>, paceDiff)
    THEN [ type |-> "tempo", confidence |-> <<70, 1>> ]
  ELSE [ type |-> IF FracLess(<<6, 1>>, avgPace) THEN "easy" ELSE "tempo",
         confidence |-> <<80, 1>> ]

\* The tag fetch-details gives by the name of the activity;
\* /easy(?!.*strides)/ is an "easy" that no "strides" follows.
EasyWithoutStrides(name) ==
  \E i \in 0..(Len(name) - 4) :
    /\ SubSeq(name, i + 1, i + 4) = <<"e","a","s","y">>
    /\ ~Includes(SubSeq(name, i + 5, Len(name)), <<"s","t","r","i","d","e","s">>)

fetchDetailsWorkoutType(details) ==
  LET name == toLowerCase(details.name) IN
  IF Includes(name, <<"i","n","t","e","r","v","a","l">>)
     \/ Includes(name, <<"s","e","r","i","e","s">>)
    THEN "intervals"
  ELSE IF Includes(name, <<"t","e","m","p","o">>)
     \/ Includes(name, <<"t","h","r","e","s","h","o","l","d">>)
    THEN "tempo"
  ELSE IF Includes(name, <<"l","s","d">>)
     \/ Includes(name, <<"l","o","n","g">>)
    THEN "long_run"
  ELSE IF EasyWithoutStrides(name) THEN "easy"
  ELSE IF Includes(name, <<"r","e","c","o","v","e","r","y">>)
     \/ Includes(name, <<"r","e","c","u","p","e","r">>)
    THEN "recovery"
  ELSE IF Includes(name, <<"r","a","c","e">>)
     \/ Includes(name, <<"c","a","r","r","e","r","a">>)
     \/ Includes(name, <<"m","a","r","a","t","o","n">>)
    THEN "race"
  ELSE IF Includes(name, <<"f","a","r","t","l","e","k">>)
    THEN "fartlek"
  ELSE IF Includes(name, <<"s","t","r","i","d","e","s">>)
     \/ Includes(name, <<"p","r","o","g","r","e","s">>)
    THEN "easy_strides"
  ELSE "general"

(***************************************************************************)
(* StravaService.syncActivities.                                           *)
(***************************************************************************)
\* Mutant of MatchingFit: the range is compared with $gt and $lt.
MatchingFitExclusive(st, stravaStartDate) ==
  LET minTime == stravaStartDate - toleranceMs
      maxTime == stravaStartDate + toleranceMs
  IN  { i \in DOMAIN st : /\ st[i].source = "upload"
                          /\ st[i].startTime > minTime
                          /\ st[i].startTime < maxTime }

\* findMatchingFitActivity: the documents the query matches.  findOne returns
\* one of them; which one is not specified by the query (no sort).
MatchingFit(st, stravaStartDate) ==
  LET minTime == stravaStartDate - toleranceMs
      maxTime == stravaStartDate + toleranceMs
  IN  { i \in DOMAIN st : /\ st[i].source = "upload"
                          /\ st[i].startTime >= minTime
                          /\ st[i].startTime <= maxTime }

isRunning(type) == type \in {"Run", "VirtualRun", "TrailRun", "Treadmill"}

categorizeActivity(stravaType) ==
  IF stravaType \in {"Run", "VirtualRun", "TrailRun", "Treadmill"} THEN "cardio_running"
  ELSE IF stravaType \in {"Ride", "VirtualRide", "MountainBikeRide", "GravelRide", "EBikeRide"}
    THEN "cardio_cycling"
  ELSE IF stravaType \in {"WeightTraining", "Crossfit", "Workout"} THEN "strength"
  ELSE IF stravaType \in {"Swim", "OpenWaterSwim"} THEN "cardio_swimming"
  ELSE IF stravaType \in {"Walk", "Hike"} THEN "cardio_walking"
  ELSE "other"

\* The paths that are defined only when the detail call succeeded
\* (detailedActivity is {} otherwise): gear, map, suffer_score.
DetailOnly(activity, hasDetailedData) ==
  IF hasDetailedData
    THEN [ gear |-> activity.gear, polyline |-> activity.polyline,
           sufferScore |-> activity.suffer_score ]
    ELSE <<>>

\* stravaData: the update document of the ordinary upsert.  averageCadence
\* (detailedActivity.average_cadence) is no path of the schema, which has
\* avgCadence, and is dropped.
StravaData(activity, hasDetailedData) ==
  [ stravaId |-> activity.id,
    activityType |-> activity.type,
    activityCategory |-> categorizeActivity(activity.type),
    name |-> activity.name,
    workoutType |-> IF hasDetailedData THEN classifyWorkout(activity)
                    ELSE classifyWorkoutBasic(activity),
    workoutAnalysis |-> IF hasDetailedData THEN analyzeWorkout(activity)
                        ELSE NewDocument.workoutAnalysis,
    description |-> IF hasDetailedData THEN activity.description ELSE <<>>,
    startTime |-> activity.start_date,
    duration |-> activity.moving_time,
    distance |-> activity.distance,
    averagePace |-> IF activity.distance > 0
                      THEN Frac(activity.moving_time * 50, activity.distance * 3)
                      ELSE <<0, 1>>,
    averageHR |-> activity.average_heartrate,
    laps |-> IF hasDetailedData THEN CastLaps(activity.laps) ELSE <<>>,
    splitsMetric |-> IF hasDetailedData
                       THEN CastSplits(activity.splits_metric) ELSE <<>>,
    bestEfforts |-> IF hasDetailedData
                      THEN CastBestEfforts(activity.best_efforts) ELSE <<>>,
    source |-> "strava",
    hasDetailedData |-> hasDetailedData ]
  @@ DetailOnly(activity, hasDetailedData)

\* The lap tie-break of the merge: fitLaps is the lap count of the document
\* findMatchingFitActivity returned.
UseStravaLaps(activity, hasDetailedData, fitLaps) ==
  hasDetailedData /\ Len(activity.laps) > 0 /\ fitLaps <= 1

\* Mutant of MergeUpdate: the flag is the one of the detail call.
MergeUpdateFlagFromFetch(activity, hasDetailedData, fitLaps) ==
  LET stravaData == StravaData(activity, hasDetailedData) IN
  [ stravaId |-> activity.id,
    source |-> "fit+strava",
    name |-> activity.name,
    description |-> IF hasDetailedData THEN activity.description ELSE <<>>,
    workoutType |-> stravaData.workoutType,
    workoutAnalysis |-> stravaData.workoutAnalysis,
    activityCategory |-> categorizeActivity(activity.type),
    splitsMetric |-> stravaData.splitsMetric,
    bestEfforts |-> stravaData.bestEfforts,
    hasDetailedData |-> hasDetailedData ]
  @@ DetailOnly(activity, hasDetailedData)
  @@ (IF UseStravaLaps(activity, hasDetailedData, fitLaps)
        THEN [ laps |-> stravaData.laps ] ELSE <<>>)

\* Mutant of MergeUpdate: the whole of stravaData is written over the file.
MergeUpdateAllStrava(activity, hasDetailedData, fitLaps) ==
  [ source |-> "fit+strava", hasDetailedData |-> TRUE ]
  @@ StravaData(activity, hasDetailedData)

\* Mutant of MergeUpdate: the provenance written is the one of stravaData.
MergeUpdateSourceUntagged(activity, hasDetailedData, fitLaps) ==
  LET stravaData == StravaData(activity, hasDetailedData) IN
  [ stravaId |-> activity.id,
    source |-> stravaData.source,
    name |-> activity.name,
    description |-> IF hasDetailedData THEN activity.description ELSE <<>>,
    workoutType |-> stravaData.workoutType,
    workoutAnalysis |-> stravaData.workoutAnalysis,
    activityCategory |-> categorizeActivity(activity.type),
    splitsMetric |-> stravaData.splitsMetric,
    bestEfforts |-> stravaData.bestEfforts,
    hasDetailedData |-> TRUE ]
  @@ DetailOnly(activity, hasDetailedData)
  @@ (IF UseStravaLaps(activity, hasDetailedData, fitLaps)
        THEN [ laps |-> stravaData.laps ] ELSE <<>>)

\* The update document of the merge (findByIdAndUpdate on the FIT document).
MergeUpdate(activity, hasDetailedData, fitLaps) ==
  LET stravaData == StravaData(activity, hasDetailedData) IN
  [ stravaId |-> activity.id,
    source |-> "fit+strava",
    name |-> activity.name,
    description |-> IF hasDetailedData THEN activity.description ELSE <<>>,
    workoutType |-> stravaData.workoutType,
    workoutAnalysis |-> stravaData.workoutAnalysis,
    activityCategory |-> categorizeActivity(activity.type),
    splitsMetric |-> stravaData.splitsMetric,
    bestEfforts |-> stravaData.bestEfforts,
    hasDetailedData |-> TRUE ]
  @@ DetailOnly(activity, hasDetailedData)
  @@ (IF UseStravaLaps(activity, hasDetailedData, fitLaps)
        THEN [ laps |-> stravaData.laps ] ELSE <<>>)

\* Another request may run while a sync run is in flight only when the
\* environment lets requests overlap.
Quiet == /\ \A q \in Runs : sync[q].pc = "idle"
         /\ fd.pc = "idle"

Current(r) == env.upstream[sync[r].idx]

\* Indexes into the upstream list of the activities of one page.
PageItems(page) ==
  { k \in DOMAIN env.upstream : (page - 1) * perPage < k /\ k <= page * perPage }

\* End of the for-body: the next activity of the page, or the next page.
Advance(s) ==
  IF s.idx + 1 \in PageItems(s.page)
    THEN [ s EXCEPT !.pc = "check", !.idx = s.idx + 1,
                    !.hasDetailedData = FALSE, !.fitActivity = NoId, !.fitLaps = 0 ]
    ELSE [ s EXCEPT !.pc = "list", !.page = s.page + 1,
                    !.hasDetailedData = FALSE, !.fitActivity = NoId, !.fitLaps = 0 ]

\* POST /api/strava/sync is received.
StartSync(r) ==
  /\ sync[r].pc = "idle"
  /\ \A q \in Runs : q < r => sync[q].pc # "idle"
  /\ env.overlap \/ Quiet
  /\ sync' = [ sync EXCEPT ![r] = [ IdleSync EXCEPT !.pc = "list" ] ]
  /\ last' = Event("syncStart", NoId, NoId, 0)
  /\ UNCHANGED <<env, store, fd, auto, tmp, out>>

\* The paginated list call of the while loop.
ListPage(r) ==
  /\ sync[r].pc = "list"
  /\ \E answer \in Answers(env.listMode) :
       CASE answer = "error" ->
              \* throw: the route answers 500
              /\ sync' = [ sync EXCEPT ![r] = IdleSync ]
              /\ last' = Event("listFailed", NoId, NoId, sync[r].syncedCount)
         [] answer = "429" \/ PageItems(sync[r].page) = {} ->
              \* break: the route answers 200 with syncedCount
              /\ sync' = [ sync EXCEPT ![r] = IdleSync ]
              /\ last' = Event("syncDone", NoId, NoId, sync[r].syncedCount)
         [] OTHER ->
              /\ sync' = [ sync EXCEPT ![r].pc = "check",
                                       ![r].idx = (sync[r].page - 1) * perPage + 1 ]
              /\ last' = Event("list", NoId, NoId, sync[r].page)
  /\ UNCHANGED <<env, store, fd, auto, tmp, out>>

\* Mutant of Check: the stored flag is not looked at.
CheckAlwaysRefetch(r) ==
  /\ sync[r].pc = "check"
  /\ LET activity == Current(r)
         shouldGetDetails ==
           isRunning(activity.type) /\ sync[r].detailedCount < MAX_DETAILED_PER_SYNC
     IN  /\ sync' = [ sync EXCEPT ![r].pc = IF shouldGetDetails THEN "detail" ELSE "match" ]
         /\ last' = Event("check", activity.id, NoId, 0)
  /\ UNCHANGED <<env, store, fd, auto, tmp, out>>

\* 1. Activity.findOne({ stravaId }) and the already-synced skip.
Check(r) ==
  /\ sync[r].pc = "check"
  /\ LET activity == Current(r)
         found == FindByStravaId(store, activity.id)
         shouldGetDetails ==
           isRunning(activity.type) /\ sync[r].detailedCount < MAX_DETAILED_PER_SYNC
         goOn ==
           /\ sync' = [ sync EXCEPT ![r].pc = IF shouldGetDetails THEN "detail" ELSE "match" ]
           /\ last' = Event("check", activity.id, NoId, 0)
     IN  \/ /\ found = {}
            /\ goOn
         \/ \E i \in found :
              IF store[i].hasDetailedData
                THEN /\ sync' = [ sync EXCEPT ![r] =
                                    Advance([ sync[r] EXCEPT !.syncedCount = @ + 1 ]) ]
                     /\ last' = Event("skip", activity.id, i, 0)
                ELSE goOn
  /\ UNCHANGED <<env, store, fd, auto, tmp, out>>

\* getActivityDetails: the rich-detail call.  Any answer that is not ok
\* gives {} and the run goes on without detail.
Detail(r) ==
  /\ sync[r].pc = "detail"
  /\ \E answer \in Answers(env.detailMode) :
       /\ sync' = [ sync EXCEPT
                      ![r].pc = "match",
                      ![r].detailCalls = @ + 1,
                      ![r].refusals = IF answer = "ok" THEN @ ELSE @ \cup {Status(answer)},
                      ![r].hasDetailedData = (answer = "ok"),
                      ![r].detailedCount = IF answer = "ok" THEN @ + 1 ELSE @ ]
       /\ last' = Event("detail", Current(r).id, NoId, Status(answer))
  /\ UNCHANGED <<env, store, fd, auto, tmp, out>>

\* 2. findMatchingFitActivity.
Match(r) ==
  /\ sync[r].pc = "match"
  /\ LET candidates == MatchingFit(store, Current(r).start_date) IN
       \/ /\ candidates = {}
          /\ sync' = [ sync EXCEPT ![r].pc = "write", ![r].fitActivity = NoId ]
          /\ last' = Event("match", Current(r).id, NoId, 0)
       \/ \E i \in candidates :
            /\ sync' = [ sync EXCEPT ![r].pc = "write", ![r].fitActivity = i,
                                     ![r].fitLaps = Len(store[i].laps) ]
            /\ last' = Event("match", Current(r).id, i, 0)
  /\ UNCHANGED <<env, store, fd, auto, tmp, out>>

\* The merge (findByIdAndUpdate) or the upsert (findOneAndUpdate, upsert).
Write(r) ==
  /\ sync[r].pc = "write"
  /\ LET s == sync[r]
         activity == Current(r)
         fit == s.fitActivity
         counted == [ s EXCEPT !.syncedCount = @ + 1 ]
     IN  IF fit # NoId
           THEN IF DuplicateKey(store, fit, activity.id)
                  THEN \* E11000 rejects the update; syncActivities throws
                       /\ store' = store
                       /\ sync' = [ sync EXCEPT ![r] = IdleSync ]
                       /\ last' = Event("mergeFailed", activity.id, fit, s.syncedCount)
                  ELSE /\ store' = [ store EXCEPT ![fit] =
                                       SetFields(@, MergeUpdate(activity, s.hasDetailedData,
                                                                s.fitLaps)) ]
                       /\ sync' = [ sync EXCEPT ![r] =
                                      Advance([ counted EXCEPT !.mergedCount = @ + 1 ]) ]
                       /\ last' = Event("merge", activity.id, fit, 0)
           ELSE LET found == FindByStravaId(store, activity.id)
                    stravaData == StravaData(activity, s.hasDetailedData)
                IN  /\ sync' = [ sync EXCEPT ![r] = Advance(counted) ]
                    /\ \/ /\ found = {}
                          /\ store' = Append(store, SetFields(NewDocument, stravaData))
                          /\ last' = Event("upsert", activity.id, Len(store) + 1, 0)
                       \/ \E i \in found :
                            /\ store' = [ store EXCEPT ![i] = SetFields(@, stravaData) ]
                            /\ last' = Event("upsert", activity.id, i, 0)
  /\ UNCHANGED <<env, fd, auto, tmp, out>>

(***************************************************************************)
(* POST /api/strava/fetch-details.                                         *)
(***************************************************************************)
\* The filter of the query and of the remaining-work count.
WithoutDetails(st) ==
  { i \in DOMAIN st : st[i].activityCategory = "cardio_running" /\ ~st[i].hasDetailedData }

\* .sort({ startTime: -1 }): newest first; documents with equal start times
\* are taken in insertion order.
RECURSIVE SortByStartDesc(_, _)
SortByStartDesc(st, S) ==
  IF S = {} THEN <<>>
  ELSE LET first == CHOOSE i \in S :
                      \A j \in S : \/ st[i].startTime > st[j].startTime
                                   \/ st[i].startTime = st[j].startTime /\ i <= j
       IN  <<first>> \o SortByStartDesc(st, S \ {first})

\* .limit(n)
Limit(xs, n) == SubSeq(xs, 1, IF Len(xs) < n THEN Len(xs) ELSE n)

\* The update document of fetch-details.  suffer_score and averageCadence are
\* no paths of the schema and are dropped.
DetailsUpdate(details) ==
  [ hasDetailedData |-> TRUE,
    workoutType |-> fetchDetailsWorkoutType(details),
    description |-> details.description,
    laps |-> CastLaps(details.laps),
    splitsMetric |-> CastSplits(details.splits_metric),
    bestEfforts |-> CastBestEfforts(details.best_efforts),
    gear |-> details.gear,
    polyline |-> details.polyline ]

\* The request is received and the query is run.
FetchRequest ==
  /\ fd.pc = "idle"
  /\ env.overlap \/ Quiet
  /\ \E activitiesWithoutDetails \in
           { Limit(SortByStartDesc(store, WithoutDetails(store)), FetchDetailsLimit) } :
       fd' = [ IdleFd EXCEPT !.pc = IF activitiesWithoutDetails = <<>> THEN "respond" ELSE "loop",
                             !.queue = activitiesWithoutDetails,
                             !.stravaIds = [ k \in DOMAIN activitiesWithoutDetails |->
                                               store[activitiesWithoutDetails[k]].stravaId ] ]
  /\ last' = Event("fdStart", NoId, NoId, 0)
  /\ UNCHANGED <<env, store, sync, tmp, out>>

\* A request that does not come from auto-sync.sh.
FetchStart ==
  /\ FetchRequest
  /\ UNCHANGED auto

\* One iteration of the for loop: the detail request for the next activity
\* and, when it is answered, the update of the document.  A document without
\* external id is requested as /activities/undefined, which the upstream
\* never answers with an activity.  The external id is the one of the
\* document as the query returned it.
FetchStep ==
  /\ fd.pc = "loop"
  /\ LET i == Head(fd.queue)
         sid == Head(fd.stravaIds)
         rest == Tail(fd.queue)
         answers == IF sid = NoId
                      THEN (Answers(env.detailMode) \ {"ok"}) \cup {"error"}
                      ELSE Answers(env.detailMode)
         next == [ fd EXCEPT !.queue = rest, !.stravaIds = Tail(@), !.calls = @ + 1,
                             !.pc = IF rest = <<>> THEN "respond" ELSE "loop" ]
     IN  \E answer \in answers :
           CASE answer = "429" ->
                  /\ fd' = [ fd EXCEPT !.pc = "respond", !.calls = @ + 1 ]
                  /\ store' = store
                  /\ last' = Event("fd429", sid, i, 0)
             [] answer = "error" ->
                  /\ fd' = next
                  /\ store' = store
                  /\ last' = Event("fdFailed", sid, i, 0)
             [] OTHER ->
                  /\ fd' = [ next EXCEPT !.updated = @ + 1 ]
                  /\ store' = [ store EXCEPT ![i] = SetFields(@, DetailsUpdate(ApiById(sid))) ]
                  /\ last' = Event("fdUpdate", sid, i, 0)
  /\ UNCHANGED <<env, sync, auto, tmp, out>>

\* auto-sync.sh after the response of its request: it stops when remaining
\* is 0; otherwise it sleeps and tests the loop condition again.
AfterResponse(script, remaining) ==
  [ script EXCEPT
      !.remaining = remaining,
      !.pc = IF remaining = 0 \/ script.sync_count >= max_syncs THEN "done" ELSE "loop" ]

\* The response: updated and the remaining-work count.
FetchRespond ==
  /\ fd.pc = "respond"
  /\ fd' = IdleFd
  /\ LET remaining == Cardinality(WithoutDetails(store)) IN
       /\ last' = Event("fdDone", NoId, NoId, remaining)
       /\ auto' = IF auto.pc = "wait" THEN AfterResponse(auto, remaining) ELSE auto
  /\ UNCHANGED <<env, store, sync, tmp, out>>

\* auto-sync.sh is started.
AutoSyncStart ==
  /\ auto.pc = "off"
  /\ auto' = [ AutoOff EXCEPT !.pc = "loop" ]
  /\ last' = Event("autoStart", NoId, NoId, 0)
  /\ UNCHANGED <<env, store, sync, fd, tmp, out>>

\* One pass of the while loop up to the curl request.
AutoSyncCall ==
  /\ auto.pc = "loop"
  /\ auto.sync_count < max_syncs
  /\ auto' = [ auto EXCEPT !.pc = "wait", !.sync_count = @ + 1 ]
  /\ FetchRequest

(***************************************************************************)
(* The statistics: GET /api/stats and the summary AIAnalysisService builds  *)
(* for POST /api/activities/analyze.                                       *)
(***************************************************************************)
RECURSIVE SumOf(_)
SumOf(xs) == IF xs = <<>> THEN 0 ELSE Head(xs) + SumOf(Tail(xs))

\* Math.round of a fraction that is not negative.
Round(p) == (2 * p[1] + p[2]) \div (2 * p[2])

\* Number.prototype.toFixed(2) of a fraction that is not negative: the text
\* "w.dd", as <<w, dd>>.
toFixed2(p) ==
  LET hundredths == (200 * p[1] + p[2]) \div (2 * p[2])
  IN  <<hundredths \div 100, hundredths % 100>>

\* Activity.find({}).sort({ startTime: -1 }): the documents, newest first.
FindNewestFirst(st) ==
  LET order == SortByStartDesc(st, DOMAIN st) IN [ k \in DOMAIN order |-> st[order[k]] ]

InCategory(activities, category) ==
  SelectSeq(activities, LAMBDA a : a.activityCategory = category)

\* Mutant of calculateCategoryStats: the averages are taken over all the
\* activities of the category.
calculateCategoryStatsOverAll(activities) ==
  IF Len(activities) = 0
    THEN [ count |-> 0, totalDistance |-> 0, avgHR |-> 0, avgPace |-> <<0, 1>> ]
  ELSE
    LET totalHR == SumOf([ i \in DOMAIN activities |-> activities[i].averageHR ])
        totalPace == FracSum([ i \in DOMAIN activities |-> activities[i].averagePace ])
    IN  [ count |-> Len(activities),
          totalDistance |-> SumOf([ i \in DOMAIN activities |-> activities[i].distance ]),
          avgHR |-> Round(Frac(totalHR, Len(activities))),
          avgPace |-> Frac(totalPace[1], totalPace[2] * Len(activities)) ]

\* AIAnalysisService.calculateCategoryStats (the totals of duration and
\* calories are not modelled).
calculateCategoryStats(activities) ==
  IF Len(activities) = 0
    THEN [ count |-> 0, totalDistance |-> 0, avgHR |-> 0, avgPace |-> <<0, 1>> ]
  ELSE
    LET withHR == SelectSeq(activities, LAMBDA a : a.averageHR > 0)
        withPace == SelectSeq(activities, LAMBDA a : a.averagePace[1] > 0)
        totalHR == SumOf([ i \in DOMAIN withHR |-> withHR[i].averageHR ])
        totalPace == FracSum([ i \in DOMAIN withPace |-> withPace[i].averagePace ])
    IN  [ count |-> Len(activities),
          totalDistance |-> SumOf([ i \in DOMAIN activities |-> activities[i].distance ]),
          avgHR |-> IF Len(withHR) > 0 THEN Round(Frac(totalHR, Len(withHR))) ELSE 0,
          avgPace |-> IF Len(withPace) > 0
                        THEN Frac(totalPace[1], totalPace[2] * Len(withPace))
                        ELSE <<0, 1>> ]

\* calculateCategoryStats of index.ts: the same with avgPace as a text, "0"
\* (<<0>>) when no activity has a pace.
routeCategoryStats(activities) ==
  IF Len(activities) = 0
    THEN [ count |-> 0, distance |-> 0, avgHR |-> 0, avgPace |-> <<0>> ]
  ELSE
    LET withHR == SelectSeq(activities, LAMBDA a : a.averageHR > 0)
        withPace == SelectSeq(activities, LAMBDA a : a.averagePace[1] > 0)
        totalHR == SumOf([ i \in DOMAIN withHR |-> withHR[i].averageHR ])
        totalPace == FracSum([ i \in DOMAIN withPace |-> withPace[i].averagePace ])
    IN  [ count |-> Len(activities),
          distance |-> SumOf([ i \in DOMAIN activities |-> activities[i].distance ]),
          avgHR |-> IF Len(withHR) > 0 THEN Round(Frac(totalHR, Len(withHR))) ELSE 0,
          avgPace |-> IF Len(withPace) > 0
                        THEN toFixed2(Frac(totalPace[1], totalPace[2] * Len(withPace)))
                        ELSE <<0>> ]

\* Mutant of calculateTrend: the thresholds are 20 %.
calculateTrendTwentyPercent(activities) ==
  LET midpoint == Len(activities) \div 2
      recent == SubSeq(activities, 1, midpoint)
      older == SubSeq(activities, midpoint + 1, Len(activities))
      recentRunning == InCategory(recent, "cardio_running")
      olderRunning == InCategory(older, "cardio_running")
      recentSum == SumOf([ i \in DOMAIN recentRunning |-> recentRunning[i].distance ])
      olderSum == SumOf([ i \in DOMAIN olderRunning |-> olderRunning[i].distance ])
  IN  IF Len(activities) < 10 THEN "insufficient_data"
      ELSE IF Len(recentRunning) = 0 \/ Len(olderRunning) = 0 THEN "insufficient_data"
      ELSE IF 10 * recentSum * Len(olderRunning) > 12 * olderSum * Len(recentRunning)
        THEN "improving"
      ELSE IF 10 * recentSum * Len(olderRunning) < 8 * olderSum * Len(recentRunning)
        THEN "declining"
      ELSE "stable"

\* AIAnalysisService.calculateTrend.  recentAvgDistance > olderAvgDistance *
\* 1.1 is compared on the sums, without the divisions.
calculateTrend(activities) ==
  LET midpoint == Len(activities) \div 2
      recent == SubSeq(activities, 1, midpoint)
      older == SubSeq(activities, midpoint + 1, Len(activities))
      recentRunning == InCategory(recent, "cardio_running")
      olderRunning == InCategory(older, "cardio_running")
      recentSum == SumOf([ i \in DOMAIN recentRunning |-> recentRunning[i].distance ])
      olderSum == SumOf([ i \in DOMAIN olderRunning |-> olderRunning[i].distance ])
  IN  IF Len(activities) < 10 THEN "insufficient_data"
      ELSE IF Len(recentRunning) = 0 \/ Len(olderRunning) = 0 THEN "insufficient_data"
      ELSE IF 10 * recentSum * Len(olderRunning) > 11 * olderSum * Len(recentRunning)
        THEN "improving"
      ELSE IF 10 * recentSum * Len(olderRunning) < 9 * olderSum * Len(recentRunning)
        THEN "declining"
      ELSE "stable"

\* GET /api/stats without a period: calculateStats over all the activities.
GetStats ==
  /\ LET activities == FindNewestFirst(store) IN
       out' = [ endpoint |-> "stats",
                running |-> routeCategoryStats(InCategory(activities, "cardio_running")),
                strength |-> routeCategoryStats(InCategory(activities, "strength")),
                cycling |-> routeCategoryStats(InCategory(activities, "cardio_cycling")) ]
  /\ last' = Event("stats", NoId, NoId, 200)
  /\ UNCHANGED <<env, store, sync, fd, auto, tmp>>

\* POST /api/activities/analyze with period 'all': the summary
\* createDetailedSummary hands to the prompt.  Without activities the route
\* answers before it is built.
GetAnalysis ==
  /\ LET activities == FindNewestFirst(store) IN
       out' = IF Len(activities) = 0
                THEN [ endpoint |-> "analyze" ]
                ELSE [ endpoint |-> "analyze",
                       totalActivities |-> Len(activities),
                       running |-> calculateCategoryStats(InCategory(activities, "cardio_running")),
                       strength |-> calculateCategoryStats(InCategory(activities, "strength")),
                       cycling |-> calculateCategoryStats(InCategory(activities, "cardio_cycling")),
                       trend |-> calculateTrend(activities) ]
  /\ last' = Event("analyze", NoId, NoId, 200)
  /\ UNCHANGED <<env, store, sync, fd, auto, tmp>>

(***************************************************************************)
(* GET /api/stats/predictions.                                             *)
(***************************************************************************)
\* A personal record: seconds, or 0 for null and undefined (the handler
\* tests a record by its truthiness only, and treats the three alike).
null == 0

\* effort.moving_time as the scan reads it from a stored best effort: a key
\* that is no path of the best-effort schema reads as undefined.
MovingTimeOf(effort) ==
  IF "moving_time" \in DOMAIN effort THEN effort.moving_time ELSE null

\* The efforts of all activities with best efforts, in the order of the scan.
RECURSIVE AllEfforts(_)
AllEfforts(activities) ==
  IF activities = <<>> THEN <<>>
  ELSE Head(activities).bestEfforts \o AllEfforts(Tail(activities))

\* The scan for the best time of one distance: best is replaced when it is
\* falsy, or when the time read is smaller.
RECURSIVE BestOf(_, _, _)
BestOf(efforts, name, best) ==
  IF efforts = <<>> THEN best
  ELSE LET effort == Head(efforts)
           next == IF effort.name = name
                      /\ (best = null \/ MovingTimeOf(effort) < best)
                     THEN MovingTimeOf(effort) ELSE best
       IN  BestOf(Tail(efforts), name, next)

\* Math.pow(dist2 / dist1, 1.06), in 1/100000.
RiegelFactor(dist1, dist2) ==
  CASE dist1 = "5" /\ dist2 = "10"            -> 208493
    [] dist1 = "5" /\ dist2 = "21.0975"       -> 460020
    [] dist1 = "5" /\ dist2 = "42.195"        -> 959110
    [] dist1 = "10" /\ dist2 = "21.0975"      -> 220640
    [] dist1 = "10" /\ dist2 = "42.195"       -> 460020
    [] dist1 = "21.0975" /\ dist2 = "42.195"  -> 208493

\* Math.round(riegel(time, dist1, dist2))
riegel(time, dist1, dist2) == (time * RiegelFactor(dist1, dist2) + 50000) \div 100000

\* No entry of predictions under a key.
NoPrediction == [ time |-> 0, basedOn |-> "" ]

Targets == {"5K", "10K", "Half-Marathon", "Marathon"}

\* Mutant of predictions: a later source always overwrites an earlier one.
predictionsLastWins(best5K, best10K, bestHalf) ==
  LET none == [ d \in Targets |-> NoPrediction ]
      from5K ==
        IF best5K # null
          THEN [ none EXCEPT
                   !["5K"] = [ time |-> best5K, basedOn |-> "PR" ],
                   !["10K"] = [ time |-> riegel(best5K, "5", "10"), basedOn |-> "5K PR" ],
                   !["Half-Marathon"] =
                     [ time |-> riegel(best5K, "5", "21.0975"), basedOn |-> "5K PR" ],
                   !["Marathon"] =
                     [ time |-> riegel(best5K, "5", "42.195"), basedOn |-> "5K PR" ] ]
          ELSE none
      from10K ==
        IF best10K # null
          THEN [ from5K EXCEPT
                   !["10K"] = [ time |-> best10K, basedOn |-> "PR" ],
                   !["Half-Marathon"] =
                     [ time |-> riegel(best10K, "10", "21.0975"), basedOn |-> "10K PR" ],
                   !["Marathon"] =
                     [ time |-> riegel(best10K, "10", "42.195"), basedOn |-> "10K PR" ] ]
          ELSE from5K
  IN  IF bestHalf # null
        THEN [ from10K EXCEPT
                 !["Half-Marathon"] = [ time |-> bestHalf, basedOn |-> "PR" ],
                 !["Marathon"] =
                   [ time |-> riegel(bestHalf, "21.0975", "42.195"), basedOn |-> "HM PR" ] ]
        ELSE from10K

\* The predictions of the handler from the three personal records.
predictions(best5K, best10K, bestHalf) ==
  LET none == [ d \in Targets |-> NoPrediction ]
      \* !predictions[key] || time < predictions[key].time
      Better(p, key, time) == p[key] = NoPrediction \/ time < p[key].time
      from5K ==
        IF best5K # null
          THEN [ none EXCEPT
                   !["5K"] = [ time |-> best5K, basedOn |-> "PR" ],
                   !["10K"] = [ time |-> riegel(best5K, "5", "10"), basedOn |-> "5K PR" ],
                   !["Half-Marathon"] =
                     [ time |-> riegel(best5K, "5", "21.0975"), basedOn |-> "5K PR" ],
                   !["Marathon"] =
                     [ time |-> riegel(best5K, "5", "42.195"), basedOn |-> "5K PR" ] ]
          ELSE none
      hmFromM10K == riegel(best10K, "10", "21.0975")
      mFrom10K == riegel(best10K, "10", "42.195")
      from10K ==
        IF best10K # null
          THEN [ from5K EXCEPT
                   !["10K"] = IF Better(from5K, "10K", best10K)
                                THEN [ time |-> best10K, basedOn |-> "PR" ] ELSE @,
                   !["Half-Marathon"] =
                     IF Better(from5K, "Half-Marathon", hmFromM10K)
                       THEN [ time |-> hmFromM10K, basedOn |-> "10K PR" ] ELSE @,
                   !["Marathon"] =
                     IF Better(from5K, "Marathon", mFrom10K)
                       THEN [ time |-> mFrom10K, basedOn |-> "10K PR" ] ELSE @ ]
          ELSE from5K
      mFromHalf == riegel(bestHalf, "21.0975", "42.195")
  IN  IF bestHalf # null
        THEN [ from10K EXCEPT
                 !["Half-Marathon"] =
                   IF Better(from10K, "Half-Marathon", bestHalf)
                     THEN [ time |-> bestHalf, basedOn |-> "PR" ] ELSE @,
                 !["Marathon"] =
                   IF Better(from10K, "Marathon", mFromHalf)
                     THEN [ time |-> mFromHalf, basedOn |-> "HM PR" ] ELSE @ ]
        ELSE from10K

\* The body of the response for the three personal records.
PredictionsBody(best5K, best10K, bestHalf) ==
  [ endpoint |-> "predictions",
    predictions |-> predictions(best5K, best10K, bestHalf),
    personalRecords |-> [ d \in Targets \ {"Marathon"} |->
                            CASE d = "5K" -> best5K
                              [] d = "10K" -> best10K
                              [] OTHER -> bestHalf ] ]

\* GET /api/stats/predictions: the scan of the stored best efforts, and the
\* predictions from its three results.
GetPredictions ==
  /\ LET activities == SelectSeq(store, LAMBDA a : a.bestEfforts # <<>>)
         efforts == AllEfforts(activities)
     IN  out' = PredictionsBody(BestOf(efforts, "5K", null),
                                BestOf(efforts, "10K", null),
                                BestOf(efforts, "Half-Marathon", null))
  /\ last' = Event("predictions", NoId, NoId, 200)
  /\ UNCHANGED <<env, store, sync, fd, auto, tmp>>

\* The handler from the end of its scan on, the three variables of the scan
\* being env.best.
Predict ==
  /\ out' = PredictionsBody(env.best[1], env.best[2], env.best[3])
  /\ last' = Event("predictions", NoId, NoId, 200)
  /\ UNCHANGED <<env, store, sync, fd, auto, tmp>>

(***************************************************************************)
(* Specifications.                                                         *)
(***************************************************************************)
InitState ==
  /\ store = <<>>
  /\ tmp = {}
  /\ out = NoResponse
  /\ sync = [ r \in Runs |-> IdleSync ]
  /\ fd = IdleFd
  /\ auto = AutoOff
  /\ last = Event("init", NoId, NoId, 0)

\* A short upstream list that answers any request in any way.
Init ==
  /\ env \in [ upstream : SmallLists, listMode : {"any"}, detailMode : {"any"},
               files : {FitFiles}, maxUploads : {MaxUploads}, overlap : {FALSE} ]
  /\ InitState

\* An upstream list longer than the detail budget; the upstream answers all
\* list requests alike and all detail requests alike.
InitBudget ==
  /\ env \in [ upstream : {BudgetList}, listMode : {"up"}, detailMode : {"up", "down"},
               files : {{BudgetFile}}, maxUploads : {BudgetUploads}, overlap : {FALSE} ]
  /\ InitState

Next ==
  \/ \E file \in AllFiles : Upload(file)
  \/ \E r \in Runs : StartSync(r)
  \/ \E r \in Runs : ListPage(r)
  \/ \E r \in Runs : Check(r)
  \/ \E r \in Runs : Detail(r)
  \/ \E r \in Runs : Match(r)
  \/ \E r \in Runs : Write(r)
  \/ FetchStart
  \/ FetchStep
  \/ FetchRespond

\* The handlers together with auto-sync.sh.
NextResume ==
  \/ Next
  \/ AutoSyncStart
  \/ AutoSyncCall

\* An upstream that answers every request for an activity it knows; one
\* file is uploaded, inside or outside the window of the upstream run.
InitResume ==
  /\ env \in [ upstream : { <<ApiActivity(1, "Run", 2), ApiActivity(2, "Ride", 2)>> },
               listMode : {"up"}, detailMode : {"up"},
               files : { { f \in FitFiles : f.laps = 1 } }, maxUploads : {MaxUploads},
               overlap : {FALSE} ]
  /\ InitState

\* One upstream run whose name, description, laps, distance and heart rate
\* are drawn from ClassifyLists; a running file within its window.
InitClassify ==
  /\ env \in [ upstream : ClassifyLists, listMode : {"up"}, detailMode : {"any"},
               files : {{BudgetFile}}, maxUploads : {MaxUploads}, overlap : {FALSE} ]
  /\ InitState

\* Files of every sport and cadence; the upstream of Spec with two laps.
InitUpload ==
  /\ env \in [ upstream : { <<ApiActivity(1, "Run", 2), ApiActivity(2, "Ride", 2)>> },
               listMode : {"up"}, detailMode : {"any"},
               files : {SportFiles}, maxUploads : {MaxUploads}, overlap : {FALSE} ]
  /\ InitState

\* Files that decode and files that do not; the upstream of Spec with two
\* laps.
InitDecode ==
  /\ env \in [ upstream : { <<ApiActivity(1, "Run", 2), ApiActivity(2, "Ride", 2)>> },
               listMode : {"up"}, detailMode : {"up"},
               files : {DecodeFiles}, maxUploads : {MaxUploads}, overlap : {FALSE} ]
  /\ InitState

\* The collection of SpecStats, newest first: n activities of which the
\* first r of the recent half and the first o of the older half are runs, the
\* others strength sessions.  The runs of the older half are 10 km long with
\* heart rate 151, those of the recent half dr metres with heart rate 150;
\* the newest run has the heart rate hr and, when hr is 0, no pace (a track
\* log without heart rate).
StatsList(n, r, o, dr, hr) ==
  [ k \in 1..n |->
      LET midpoint == n \div 2
          isRecent == k <= midpoint
          isRun == IF isRecent THEN k <= r ELSE k - midpoint <= o
          isFirst == k = 1
          distance == IF isRecent THEN dr ELSE 10000
      IN  IF isRun
            THEN [ NewDocument EXCEPT
                     !.stravaId = 100 + k, !.activityType = "Run",
                     !.activityCategory = "cardio_running",
                     !.startTime = (n + 1 - k) * Spacing,
                     !.duration = 3000, !.distance = distance,
                     !.averageHR = IF isFirst THEN hr ELSE IF isRecent THEN 150 ELSE 151,
                     !.averagePace = IF isFirst /\ hr = 0 THEN <<0, 1>>
                                     ELSE Frac(3000 * 50, distance * 3) ]
            ELSE [ NewDocument EXCEPT
                     !.stravaId = 100 + k, !.activityType = "WeightTraining",
                     !.activityCategory = "strength",
                     !.startTime = (n + 1 - k) * Spacing,
                     !.duration = 1800, !.averageHR = 120 ] ]

\* The collections of SpecStats, in insertion order (oldest first).
StatsStores ==
  { [ i \in 1..n |-> StatsList(n, r, o, dr, hr)[n + 1 - i] ] :
      n \in 9..MaxStored, r \in 0..MaxHalfRuns, o \in 0..MaxHalfRuns,
      dr \in {8900, 9000, 10000, 11000, 11100}, hr \in {0, 151} }

\* A collection that earlier sync runs have filled; no request that writes.
InitStats ==
  /\ env \in [ upstream : {<<>>}, listMode : {"up"}, detailMode : {"up"},
               files : {{}}, maxUploads : {0}, overlap : {FALSE} ]
  /\ store \in StatsStores
  /\ sync = [ r \in Runs |-> IdleSync ]
  /\ fd = IdleFd
  /\ auto = AutoOff
  /\ tmp = {}
  /\ out = NoResponse
  /\ last = Event("init", NoId, NoId, 0)

\* The statistics endpoints.
NextStats ==
  \/ GetStats
  \/ GetAnalysis

\* Personal records of the three distances, each null or a time in seconds;
\* the 10K and Half-Marathon times lie on either side of what the shorter
\* records extrapolate to (2502 s and 5520 s from a 5K of 1200 s).
PersonalRecords ==
  { null, 1100, 1200, 1300, 1500 }
    \X { null, 2400, 2502, 2503, 2700, 3000 }
    \X { null, 5300, 5520, 5521, 6000 }

\* The handler of the predictions after a scan that found env.best.
InitPredict ==
  /\ env \in [ upstream : {<<>>}, listMode : {"up"}, detailMode : {"up"},
               files : {{}}, maxUploads : {0}, overlap : {FALSE},
               best : PersonalRecords ]
  /\ InitState

\* An upstream run with best efforts over the three distances (none, one or
\* two of a distance), which a sync run stores and the predictions scan.
RecordLists ==
  { << [ ApiActivity(1, "Run", 2) EXCEPT !.best_efforts = efforts ] >> :
      efforts \in
        { <<>>,
          << [ name |-> "1K", distance |-> 1000, moving_time |-> 290 ] >>,
          << [ name |-> "5K", distance |-> 5000, moving_time |-> 1200 ] >>,
          << [ name |-> "5K", distance |-> 5000, moving_time |-> 1200 ],
             [ name |-> "10K", distance |-> 10000, moving_time |-> 2700 ] >>,
          << [ name |-> "10K", distance |-> 10000, moving_time |-> 2700 ],
             [ name |-> "Half-Marathon", distance |-> 21097, moving_time |-> 5300 ] >> } }

InitRecords ==
  /\ env \in [ upstream : RecordLists, listMode : {"up"}, detailMode : {"any"},
               files : {{BudgetFile}}, maxUploads : {MaxUploads}, overlap : {FALSE} ]
  /\ InitState

\* The handlers that write, and the predictions.
NextRecords ==
  \/ Next
  \/ GetPredictions

\* One upstream run whose laps, distance and heart rate are drawn from
\* VarianceLists; a running file within its window.
InitVariance ==
  /\ env \in [ upstream : VarianceLists, listMode : {"up"}, detailMode : {"any"},
               files : {{BudgetFile}}, maxUploads : {MaxUploads}, overlap : {FALSE} ]
  /\ InitState

\* Requests overlap: a second sync request is received while the first is
\* at one of its awaits.  The upstream answers every request; the file is a
\* run of two laps within the window of the upstream run.
InitOverlap ==
  /\ env \in [ upstream : { <<ApiActivity(1, "Run", 2)>> },
               listMode : {"up"}, detailMode : {"up"},
               files : { { f \in FitFiles : f.start_time = Spacing + toleranceMs /\ f.laps = 2 } },
               maxUploads : {MaxUploads}, overlap : {TRUE} ]
  /\ InitState

Spec == Init /\ [][Next]_vars

SpecOverlap == InitOverlap /\ [][Next]_vars

SpecVariance == InitVariance /\ [][Next]_vars

SpecPredict == InitPredict /\ [][Predict]_vars

SpecRecords == InitRecords /\ [][NextRecords]_vars

SpecStats == InitStats /\ [][NextStats]_vars

SpecClassify == InitClassify /\ [][Next]_vars

SpecUpload == InitUpload /\ [][Next]_vars

SpecDecode == InitDecode /\ [][Next]_vars

SpecResume == InitResume /\ [][NextResume]_vars

SpecBudget == InitBudget /\ [][Next]_vars

(***************************************************************************)
(* Vocabulary of the properties.                                           *)
(***************************************************************************)
\* |t1 - t2| <= 120 s, in milliseconds.
WithinWindow(t1, t2) == t1 - t2 <= 120 * 1000 /\ t2 - t1 <= 120 * 1000

ApiStart(sid) == ApiById(sid).start_date

\* The file-upload documents of st whose start lies in the window of sid.
UploadsNear(st, sid) ==
  { a \in DOMAIN st : st[a].source = "upload" /\ WithinWindow(st[a].startTime, ApiStart(sid)) }

\* The documents of st that hold sid as a record of its own (no upload).
OwnRecords(st, sid) ==
  { c \in DOMAIN st : st[c].stravaId = sid /\ st[c].fileName = "" }

\* A document created by an upload that carries an external id.
Merged(st) == { a \in DOMAIN st : st[a].fileName # "" /\ st[a].stravaId # NoId }

(***************************************************************************)
(* C1.  Whenever a sync run polls an API activity B while the store holds  *)
(* a file-upload record A within 120 s of it, the run merges B into A: it  *)
(* does not finish B by skipping it or by failing while A and a separate   *)
(* record of B are both stored, and its match step selects an upload       *)
(* record whenever one lies in the window.                                 *)
(***************************************************************************)
C1_PolledMatchIsMerged ==
  [][ /\ last'.op \in {"skip", "mergeFailed"} =>
           (UploadsNear(store', last'.b) = {} \/ OwnRecords(store', last'.b) = {})
      /\ (last'.op = "match" /\ UploadsNear(store, last'.b) # {}) => last'.rec # NoId
    ]_vars

\* The steps of a sync run that handle one polled activity.
SyncOps == {"check", "skip", "detail", "match", "merge", "upsert", "mergeFailed"}

\* The run whose write step is being taken obtained rich detail.
WriterHasDetail ==
  \E r \in Runs : sync[r].pc = "write" /\ sync'[r] # sync[r] /\ sync[r].hasDetailedData

(***************************************************************************)
(* C2.  Merge is idempotent: once B is merged into a file-upload record,   *)
(* no step of a sync run that handles B again changes the store, so laps,  *)
(* splits, best efforts and points are not duplicated.                     *)
(***************************************************************************)
C2_MergeIdempotent ==
  [][ ( /\ last'.op \in SyncOps
        /\ \E a \in Merged(store) : store[a].stravaId = last'.b )
      => store' = store ]_vars

\* A later run has handled B again after the merge.
C2_Witness ==
  /\ last.op = "skip"
  /\ last.rec \in Merged(store)
  /\ store[last.rec].source = "fit+strava"

(***************************************************************************)
(* C3.  The window is |A.start - B.start| <= 120 s, inclusive: the match   *)
(* step selects an upload record exactly when one lies in the window, and  *)
(* a write for B leaves every upload record outside the window unchanged   *)
(* and B stored in another record than it.                                 *)
(***************************************************************************)
C3_OutsideWindowNoMerge ==
  [][ /\ last'.op = "match" =>
           LET near == UploadsNear(store, last'.b) IN
             /\ (last'.rec = NoId) <=> (near = {})
             /\ last'.rec # NoId => last'.rec \in near
      /\ last'.op \in {"merge", "upsert"} =>
           \A a \in DOMAIN store :
             ( /\ store[a].source = "upload"
               /\ ~WithinWindow(store[a].startTime, ApiStart(last'.b)) )
             => /\ store'[a] = store[a]
                /\ \E c \in DOMAIN store' : c # a /\ store'[c].stravaId = last'.b
    ]_vars

\* B was stored on its own although a file starting 120 s + 1 ms after it
\* had been uploaded before.
C3_Witness ==
  /\ last.op = "upsert"
  /\ \E a \in Ids :
       /\ a < last.rec
       /\ store[a].source = "upload"
       /\ store[a].startTime = ApiStart(last.b) + 120 * 1000 + 1
       /\ store[last.rec].source = "strava"

C5_LapTieBreak ==
  [][ last'.op = "merge" =>
        LET old == store[last'.rec]
            new == store'[last'.rec]
            api == ApiById(last'.b)
        IN  (WriterHasDetail /\ Len(old.laps) >= 1 /\ Len(api.laps) >= 1) =>
              IF Len(old.laps) <= 1 /\ Len(api.laps) > 1
                THEN new.laps = CastLaps(api.laps)
                ELSE new.laps = old.laps
    ]_vars

(***************************************************************************)
(* C6.  The merge step never raises: a sync run never ends with its merge  *)
(* write rejected.                                                         *)
(***************************************************************************)
C6_MergeNeverRaises == last.op # "mergeFailed"

(***************************************************************************)
(* C7.  No two stored activities carry the same external id, and every     *)
(* upstream activity a sync run has handled is carried by exactly one.     *)
(***************************************************************************)
Handled(r) ==
  CASE sync[r].pc = "idle" -> {}
    [] sync[r].pc = "list" -> { k \in DOMAIN env.upstream : k <= (sync[r].page - 1) * perPage }
    [] OTHER               -> { k \in DOMAIN env.upstream : k < sync[r].idx }

C7_StravaIdUnique ==
  /\ \A i, j \in Ids :
       (store[i].stravaId # NoId /\ store[i].stravaId = store[j].stravaId) => i = j
  /\ \A r \in Runs : \A k \in Handled(r) :
       Cardinality(FindByStravaId(store, env.upstream[k].id)) = 1

\* An upsert that updated in place the record an earlier run had inserted.
C7_Witness ==
  /\ last.op = "upsert"
  /\ last.rec < Len(store)
  /\ store[last.rec].hasDetailedData
  /\ Cardinality(FindByStravaId(store, last.b)) = 1

(***************************************************************************)
(* C8.  A record has provenance 'fit+strava' exactly when it was created   *)
(* by a file upload and merged with an API record; it keeps it through     *)
(* later uploads, sync runs and fetch-details runs.                        *)
(***************************************************************************)
C8_MergedProvenance ==
  \A a \in Ids : (store[a].source = "fit+strava") <=> (a \in Merged(store))

\* fetch-details has updated a record while a merged record is stored.
C8_Witness ==
  /\ last.op = "fdUpdate"
  /\ \E a \in Merged(store) : store[a].source = "fit+strava"

(***************************************************************************)
(* C9.  The rich-detail flag becomes true on a stored record only by a     *)
(* step that follows a successful rich-detail fetch for that activity: a   *)
(* write of a sync run that obtained the detail, or a fetch-details        *)
(* update.                                                                 *)
(***************************************************************************)
C9_FlagOnlyAfterDetail ==
  [][ \A i \in DOMAIN store' :
        ( /\ store'[i].hasDetailedData
          /\ (i \notin DOMAIN store \/ ~store[i].hasDetailedData) )
        => (last'.op = "fdUpdate" \/ WriterHasDetail)
    ]_vars

(***************************************************************************)
(* C10.  One sync run issues at most 80 rich-detail calls, and so does one *)
(* fetch-details invocation.                                               *)
(***************************************************************************)
C10_DetailBudget ==
  /\ \A r \in Runs : sync[r].detailCalls <= 80
  /\ fd.calls <= 80

(***************************************************************************)
(* C11.  The rich-detail flag is the resumption marker: a sync run issues  *)
(* a detail call only for a running activity that no stored record holds   *)
(* with the flag true, and no step of a sync run changes a record whose    *)
(* flag is true.                                                           *)
(***************************************************************************)
C11_FlagIsResumptionMarker ==
  [][ /\ last'.op = "detail" =>
           /\ isRunning(ApiById(last'.b).type)
           /\ \A i \in FindByStravaId(store, last'.b) : ~store[i].hasDetailedData
      /\ last'.op \in SyncOps =>
           \A i \in DOMAIN store : store[i].hasDetailedData => store'[i] = store[i]
    ]_vars

\* A run spends a detail call on an activity an earlier run stored without
\* detail, while another record is stored with the flag true.
C11_Witness ==
  /\ last.op = "detail"
  /\ last.n = 200
  /\ \E j \in FindByStravaId(store, last.b) : ~store[j].hasDetailedData
  /\ \E i \in Ids : store[i].hasDetailedData /\ store[i].stravaId \notin {NoId, last.b}

(***************************************************************************)
(* C13.  Once the upstream has answered 429 to a request of a sync run,    *)
(* the run issues no further upstream request (list or detail call) and    *)
(* does not raise.                                                         *)
(***************************************************************************)
C13_RateLimitHalts ==
  [][ \A r \in Runs :
        (429 \in sync[r].refusals /\ sync'[r] # sync[r]) =>
          /\ sync[r].pc \notin {"list", "detail"}
          /\ last'.op \notin {"listFailed", "mergeFailed"}
    ]_vars

(***************************************************************************)
(* C14.  When an upstream call of a sync run is answered with a status     *)
(* that is neither 2xx nor 429, the run aborts with an error (it does not  *)
(* go on after the answer), and the abort leaves the store unchanged.      *)
(***************************************************************************)
C14_UpstreamErrorAborts ==
  [][ /\ \A r \in Runs : 500 \notin sync'[r].refusals
      /\ last'.op = "listFailed" => store' = store
    ]_vars

(***************************************************************************)
(* C12.  Resumption makes progress: when auto-sync.sh has stopped, the     *)
(* last remaining-work count it was given is 0, whatever the store held    *)
(* when it started (uploaded running activities included), the upstream    *)
(* answering every detail request for an activity it knows.                *)
(***************************************************************************)
C12_AutoSyncCompletes == auto.pc = "done" => auto.remaining = 0

(***************************************************************************)
(* Vocabulary of the classifier properties: the marker words of the eight  *)
(* text tiers in their priority order, and the tag of each tier.           *)
(***************************************************************************)
TierWords ==
  << { <<"i","n","t","e","r","v","a","l">>,
       <<"s","e","r","i","e","s">>,
       <<"r","e","p","e","a","t">> },
     { <<"t","e","m","p","o">>,
       <<"t","h","r","e","s","h","o","l","d">>,
       <<"u","m","b","r","a","l">> },
     { <<"l","s","d">>,
       <<"l","o","n","g">>,
       <<"t","i","r","a","d","a">> },
     { <<"e","a","s","y">>,
       <<"f","á","c","i","l">>,
       <<"f","a","c","i","l">>,
       <<"r","e","c","o","v","e","r","y">>,
       <<"r","e","c","u","p","e","r">> },
     { <<"r","a","c","e">>,
       <<"c","a","r","r","e","r","a">>,
       <<"c","o","m","p","e","t","e","n","c","i","a">>,
       <<"p","k">>,
       <<"p","a","r","k","r","u","n">> },
     { <<"f","a","r","t","l","e","k">> },
     { <<"h","i","l","l">>,
       <<"c","u","e","s","t","a">>,
       <<"s","u","b","i","d","a">> },
     { <<"s","t","r","i","d","e">>,
       <<"p","r","o","g","r","e","s">> } >>

TierTags ==
  << "intervals", "tempo", "long_run", "easy", "race", "fartlek", "hills", "easy_strides" >>

\* text holds a marker of tier i (a repeat count such as 5x or x5 is an
\* interval marker, "lt" before a blank a tempo marker).
Matches(i, text) ==
  \/ \E w \in TierWords[i] : Includes(text, w)
  \/ i = 1 /\ RepeatCount(text)
  \/ i = 2 /\ LtBlank(text)

\* The earliest tier of which text holds a marker; 0 when it holds none.
FirstTier(text) ==
  IF \E i \in DOMAIN TierWords : Matches(i, text)
    THEN CHOOSE i \in DOMAIN TierWords :
           Matches(i, text) /\ \A j \in 1..(i - 1) : ~Matches(j, text)
    ELSE 0

\* The step is a write (upsert or merge) of a run that obtained rich detail.
DetailedWrite == last'.op \in {"upsert", "merge"} /\ WriterHasDetail

\* The upstream laps of sid that are longer than 200 m.
LongLaps(sid) ==
  { i \in DOMAIN ApiById(sid).laps : ApiById(sid).laps[i].distance > 200 }

(***************************************************************************)
(* C15.  The text tier is a first-match rule in a fixed priority order:    *)
(* when the name and description of an activity written with rich detail   *)
(* hold a marker of some tier, the tag written is that of the earliest     *)
(* such tier, whatever the laps, the distance and the heart rate are.      *)
(***************************************************************************)
C15_TextTierFirstMatch ==
  [][ DetailedWrite =>
        LET tier == FirstTier(WorkoutText(ApiById(last'.b))) IN
          tier # 0 => store'[last'.rec].workoutType = TierTags[tier]
    ]_vars

\* "Easy" with the description "Intervals", 16 km and laps 20 % apart, was
\* written as intervals.
C15_Witness ==
  /\ last.op \in {"upsert", "merge"}
  /\ store[last.rec].name = <<"E","a","s","y">>
  /\ store[last.rec].description = <<"I","n","t","e","r","v","a","l","s">>
  /\ store[last.rec].distance = 16000 \/ store[last.rec].source = "fit+strava"
  /\ store[last.rec].workoutType = "intervals"

(***************************************************************************)
(* C16.  Every workout-intent tag of a stored activity is one of           *)
(* intervals, tempo, long_run, easy, recovery, race, fartlek, general (or   *)
(* the activity has no tag).                                               *)
(***************************************************************************)
C16_TagInEnum ==
  \A i \in Ids :
    store[i].workoutType \in
      { "", "intervals", "tempo", "long_run", "easy", "recovery", "race", "fartlek",
        "general" }

(***************************************************************************)
(* C17.  When the text holds no marker and fewer than 2 laps are longer    *)
(* than 200 m, the tag written with rich detail is general, whatever the   *)
(* distance and the heart rate are.                                        *)
(***************************************************************************)
C17_AbstainsWithoutLaps ==
  [][ ( /\ DetailedWrite
        /\ FirstTier(WorkoutText(ApiById(last'.b))) = 0
        /\ Cardinality(LongLaps(last'.b)) < 2 )
      => store'[last'.rec].workoutType = "general"
    ]_vars

(***************************************************************************)
(* C18 as stated.  The variance analysis has a confidence in 0..100; it is *)
(* unknown with confidence 0 exactly when fewer than 2 laps are longer     *)
(* than 200 m, and otherwise its confidence is greater than 0.             *)
(***************************************************************************)
C18_UnknownIffFewLongLaps ==
  [][ DetailedWrite =>
        LET analysis == store'[last'.rec].workoutAnalysis
            confidence == analysis.confidence
        IN  /\ 0 <= confidence[1] /\ confidence[1] <= 100 * confidence[2]
            /\ IF Cardinality(LongLaps(last'.b)) < 2
                 THEN analysis.type = "unknown" /\ confidence[1] = 0
                 ELSE analysis.type # "unknown" /\ confidence[1] > 0
    ]_vars

\* The upstream laps of sid that are longer than 200 m and have a moving time.
TimedLongLaps(sid) ==
  { i \in LongLaps(sid) : ApiById(sid).laps[i].moving_time > 0 }

(***************************************************************************)
(* C18 as amended.  The variance analysis has a confidence in 0..100; it   *)
(* is unknown with confidence 0 exactly when fewer than 2 laps are longer  *)
(* than 200 m and have a positive moving time, and otherwise its           *)
(* confidence is greater than 0.                                           *)
(***************************************************************************)
C18_UnknownIffFewTimedLaps ==
  [][ DetailedWrite =>
        LET analysis == store'[last'.rec].workoutAnalysis
            confidence == analysis.confidence
        IN  /\ 0 <= confidence[1] /\ confidence[1] <= 100 * confidence[2]
            /\ IF Cardinality(TimedLongLaps(last'.b)) < 2
                 THEN analysis.type = "unknown" /\ confidence[1] = 0
                 ELSE analysis.type # "unknown" /\ confidence[1] > 0
    ]_vars

\* An activity with two laps of 1 km, one of them without moving time, was
\* written with an unknown analysis.
C18_Witness ==
  /\ last.op = "upsert"
  /\ store[last.rec].hasDetailedData
  /\ Cardinality(LongLaps(last.b)) = 2
  /\ Cardinality(TimedLongLaps(last.b)) = 1
  /\ store[last.rec].workoutAnalysis.type = "unknown"

(***************************************************************************)
(* C19.  The stored cadence is 2 x the per-leg value the source reported:  *)
(* for an uploaded file the session, lap and point cadence, for the polled *)
(* API the average cadence written by a sync run with rich detail or by    *)
(* fetch-details.                                                          *)
(***************************************************************************)
C19_CadenceDoubled ==
  [][ /\ last'.op = "upload" =>
           \A file \in env.files :
             (store'[last'.rec] = UploadDocument(file)) =>
               LET doc == store'[last'.rec] IN
                 /\ doc.avgCadence = 2 * file.avg_cadence
                 /\ \A i \in DOMAIN doc.laps : doc.laps[i].avgCadence = 2 * file.avg_cadence
                 /\ \A i \in DOMAIN doc.records : doc.records[i].cadence = 2 * file.avg_cadence
      /\ (last'.op = "fdUpdate" \/ (last'.op = "upsert" /\ WriterHasDetail)) =>
           store'[last'.rec].avgCadence = 2 * ApiById(last'.b).average_cadence
    ]_vars

\* The category the keyword table is said to give the sport of a file.
SportCategory(sport) ==
  CASE sport \in {"running", "treadmill"} -> "cardio_running"
    [] sport = "cycling"                  -> "cardio_cycling"
    [] sport = "strength_training"        -> "strength"
    [] sport = "swimming"                 -> "cardio_swimming"
    [] sport \in {"walking", "hiking"}    -> "cardio_walking"
    [] OTHER                              -> "other"

(***************************************************************************)
(* C20.  The category stored for an uploaded file is the one the keyword   *)
(* table gives for the sport of the file: running and treadmill are        *)
(* running, cycling is cycling, strength_training is strength, swimming is *)
(* swimming, walking and hiking are walking, anything else is other.       *)
(***************************************************************************)
C20_UploadCategory ==
  [][ last'.op = "upload" =>
        \A file \in env.files :
          (store'[last'.rec] = UploadDocument(file)) =>
            (store'[last'.rec].activityCategory = SportCategory(file.sport))
    ]_vars

\* C21: after an upload request has ended the uploaded file is no longer in
\* temporary storage, whether it was decoded or not, and a request whose
\* file was not decoded is answered with an error.
C21_TempCleaned ==
  /\ tmp = {}
  /\ last.op = "uploadFailed" => last.n >= 400

\* C25: every duration stored on an activity is non-negative, whatever the
\* order of the track points of the file it was decoded from.
C25_DurationNonNegative == \A i \in Ids : store[i].duration >= 0

\* The activities of a category, and those of them with a heart rate or a
\* pace.
Partition(category) == InCategory(FindNewestFirst(store), category)

HeartRates(category) ==
  LET withHR == SelectSeq(Partition(category), LAMBDA a : a.averageHR > 0)
  IN  [ i \in DOMAIN withHR |-> withHR[i].averageHR ]

Paces(category) ==
  LET withPace == SelectSeq(Partition(category), LAMBDA a : a.averagePace[1] > 0)
  IN  [ i \in DOMAIN withPace |-> withPace[i].averagePace ]

\* n is the integer nearest to total / k.
NearestTo(n, total, k) == 2 * k * n - k <= 2 * total /\ 2 * total < 2 * k * n + k

\* The value of the text "w.dd" (or "0") is the fraction p.
TextIs(text, p) ==
  IF Len(text) = 1 THEN p[1] = 0
  ELSE (100 * text[1] + text[2]) * p[2] = 100 * p[1]

\* C22 as stated: the average heart rate of a category is the sum over the K
\* activities with a positive heart rate divided by K and rounded, the
\* average pace is the sum over the K activities with a positive pace divided
\* by K; both are 0 when K is 0.
C22_AverageExact ==
  \A category \in {"cardio_running", "strength", "cardio_cycling"} :
    LET field == CASE category = "cardio_running" -> "running"
                   [] category = "strength" -> "strength"
                   [] OTHER -> "cycling"
        hrs == HeartRates(category)
        paces == Paces(category)
        total == FracSum(paces)
        mean == IF Len(paces) = 0 THEN <<0, 1>> ELSE Frac(total[1], total[2] * Len(paces))
    IN  /\ out.endpoint = "analyze" /\ field \in DOMAIN out =>
             /\ Len(hrs) = 0 => out[field].avgHR = 0
             /\ Len(hrs) > 0 => NearestTo(out[field].avgHR, SumOf(hrs), Len(hrs))
             /\ out[field].avgPace = mean
        /\ out.endpoint = "stats" =>
             /\ Len(hrs) = 0 => out[field].avgHR = 0
             /\ Len(hrs) > 0 => NearestTo(out[field].avgHR, SumOf(hrs), Len(hrs))
             /\ TextIs(out[field].avgPace, mean)

\* C22, amended: the same, the average pace in the response of /api/stats
\* being the text of that quotient with two decimals ("0" when K is 0).
C22_AverageOverPositive ==
  \A category \in {"cardio_running", "strength", "cardio_cycling"} :
    LET field == CASE category = "cardio_running" -> "running"
                   [] category = "strength" -> "strength"
                   [] OTHER -> "cycling"
        hrs == HeartRates(category)
        paces == Paces(category)
        total == FracSum(paces)
    IN  /\ out.endpoint = "analyze" /\ field \in DOMAIN out =>
             /\ Len(hrs) = 0 => out[field].avgHR = 0
             /\ Len(hrs) > 0 => NearestTo(out[field].avgHR, SumOf(hrs), Len(hrs))
             /\ Len(paces) = 0 => out[field].avgPace = <<0, 1>>
             /\ Len(paces) > 0 =>
                  out[field].avgPace[1] * total[2] * Len(paces)
                    = total[1] * out[field].avgPace[2]
        /\ out.endpoint = "stats" =>
             /\ Len(hrs) = 0 => out[field].avgHR = 0
             /\ Len(hrs) > 0 => NearestTo(out[field].avgHR, SumOf(hrs), Len(hrs))
             /\ Len(paces) = 0 => out[field].avgPace = <<0>>
             /\ Len(paces) > 0 =>
                  NearestTo(100 * out[field].avgPace[1] + out[field].avgPace[2],
                            100 * total[1], total[2] * Len(paces))

\* A running category of 3 activities of which 2 have a heart rate and a
\* pace, 150 and 151: the average is 151 (150.5 rounded), and not 100.
C22_Witness ==
  /\ out.endpoint = "analyze"
  /\ "running" \in DOMAIN out
  /\ Len(Partition("cardio_running")) = 3
  /\ Len(HeartRates("cardio_running")) = 2
  /\ Len(Paces("cardio_running")) = 2
  /\ out.running.avgHR = 151

\* The halves of the list the trend is taken from.
RunsOf(half) ==
  LET activities == FindNewestFirst(store)
      midpoint == Len(activities) \div 2
      part == IF half = "recent" THEN SubSeq(activities, 1, midpoint)
              ELSE SubSeq(activities, midpoint + 1, Len(activities))
      running == SelectSeq(part, LAMBDA a : a.activityCategory = "cardio_running")
  IN  [ i \in DOMAIN running |-> running[i].distance ]

\* C23: with fewer than 10 activities the trend is 'insufficient_data';
\* otherwise it is 'insufficient_data' when a half has no run, 'improving'
\* when the mean running distance of the recent half is more than 10 % above
\* that of the older half, 'declining' when more than 10 % below, and
\* 'stable' otherwise.
C23_Trend ==
  out.endpoint = "analyze" /\ "trend" \in DOMAIN out =>
    LET recent == RunsOf("recent")
        older == RunsOf("older")
        \* the means as fractions, compared after multiplying by 10
        recentTen == Frac(10 * SumOf(recent), Len(recent))
        olderEleven == Frac(11 * SumOf(older), Len(older))
        olderNine == Frac(9 * SumOf(older), Len(older))
    IN  out.trend =
          IF Len(store) < 10 THEN "insufficient_data"
          ELSE IF Len(recent) = 0 \/ Len(older) = 0 THEN "insufficient_data"
          ELSE IF FracLess(olderEleven, recentTen) THEN "improving"
          ELSE IF FracLess(recentTen, olderNine) THEN "declining"
          ELSE "stable"

\* Eleven activities, split 5 and 6; runs in both halves, those of the recent
\* half 11 % longer: 'improving'.
C23_Witness ==
  /\ out.endpoint = "analyze"
  /\ Len(store) = 11
  /\ Len(RunsOf("recent")) = 2 /\ Len(RunsOf("older")) = 1
  /\ \A i \in 1..2 : RunsOf("recent")[i] = 11100
  /\ out.trend = "improving"

SpreadExceeds(sid, percent) ==
  LET speeds == { ApiById(sid).laps[i].average_speed : i \in LongLaps(sid) }
      fastest == Max(speeds)
      slowest == Min(speeds)
  IN  100 * (fastest - slowest) > percent * slowest

\* C26: when the text holds no marker and at least 2 laps are longer than
\* 200 m, the tag written with rich detail is intervals for a spread above
\* 15 %, tempo for a spread above 8 %, and otherwise long_run for a distance
\* above 15 km, easy for a distance below 8 km with a heart rate below 140,
\* and general for everything else; the values 15 %, 8 %, 15 km, 8 km and
\* 140 themselves fall on the lower branch.
C26_VarianceTier ==
  [][ ( /\ DetailedWrite
        /\ FirstTier(WorkoutText(ApiById(last'.b))) = 0
        /\ Cardinality(LongLaps(last'.b)) >= 2 )
      => LET activity == ApiById(last'.b) IN
           store'[last'.rec].workoutType =
             IF SpreadExceeds(last'.b, 15) THEN "intervals"
             ELSE IF SpreadExceeds(last'.b, 8) THEN "tempo"
             ELSE IF activity.distance > 15000 THEN "long_run"
             ELSE IF activity.distance < 8000 /\ activity.average_heartrate < 140 THEN "easy"
             ELSE "general"
    ]_vars

\* A run of exactly 15 km with laps exactly 8 % apart was written as general,
\* and one with laps exactly 15 % apart as tempo.
C26_Witness ==
  /\ last.op = "upsert"
  /\ store[last.rec].hasDetailedData
  /\ ApiById(last.b).distance = 15000
  /\ LET speeds == { ApiById(last.b).laps[i].average_speed : i \in LongLaps(last.b) }
     IN  \/ speeds = {300, 324} /\ store[last.rec].workoutType = "general"
         \/ speeds = {300, 345} /\ store[last.rec].workoutType = "tempo"

\* What the personal records of a response extrapolate to for a target, by
\* the tag of the source.
Extrapolations(d) ==
  LET pr == out.personalRecords
      target == CASE d = "10K" -> "10"
                  [] d = "Half-Marathon" -> "21.0975"
                  [] OTHER -> "42.195"
  IN  { [ time |-> riegel(pr["5K"], "5", target), basedOn |-> "5K PR" ] :
          x \in { x \in {1} : pr["5K"] # null /\ d \in {"10K", "Half-Marathon", "Marathon"} } }
      \cup
      { [ time |-> riegel(pr["10K"], "10", target), basedOn |-> "10K PR" ] :
          x \in { x \in {1} : pr["10K"] # null /\ d \in {"Half-Marathon", "Marathon"} } }
      \cup
      { [ time |-> riegel(pr["Half-Marathon"], "21.0975", target), basedOn |-> "HM PR" ] :
          x \in { x \in {1} : pr["Half-Marathon"] # null /\ d = "Marathon" } }

\* The candidates for a target: its own personal record and the
\* extrapolations.
Candidates(d) ==
  IF d = "5K"
    THEN { [ time |-> out.personalRecords[d], basedOn |-> "PR" ] :
             x \in { x \in {1} : out.personalRecords[d] # null } }
  ELSE IF d = "Marathon" THEN Extrapolations(d)
  ELSE Extrapolations(d)
       \cup { [ time |-> out.personalRecords[d], basedOn |-> "PR" ] :
                x \in { x \in {1} : out.personalRecords[d] # null } }

StoredEffortTimes(name) ==
  { ApiById(store[i].stravaId).best_efforts[j].moving_time :
      <<i, j>> \in { <<i, j>> \in Ids \X (1..2) :
                      /\ store[i].bestEfforts # <<>>
                      /\ j \in DOMAIN store[i].bestEfforts
                      /\ store[i].bestEfforts[j].name = name } }

\* C30: when an activity with a best effort over 5K, 10K or Half-Marathon is
\* stored, the scan of the predictions reports the smallest stored time of
\* that distance as the personal record.
C30_ScanReadsStoredTime ==
  last.op = "predictions" =>
    \A name \in {"5K", "10K", "Half-Marathon"} :
      StoredEffortTimes(name) # {} =>
        /\ out.personalRecords[name] # null
        /\ out.personalRecords[name] = Min(StoredEffortTimes(name))

\* C28: with sync runs interleaved at their awaits, a file-upload record
\* that a run has merged stays merged: its provenance is 'fit+strava' and
\* its duration and distance are those measured by the file, as are its
\* laps when the file has more than one.
C28_MergedStaysMerged ==
  \A i \in Ids :
    store[i].fileName # "" /\ store[i].stravaId # NoId =>
      /\ store[i].source = "fit+strava"
      /\ \E file \in env.files :
           LET measured == UploadDocument(file) IN
             /\ store[i].duration = measured.duration
             /\ store[i].distance = measured.distance
             /\ Len(measured.laps) > 1 => store[i].laps = measured.laps

\* An activity known by its name only: no description and no laps, and a
\* distance and heart rate for which the rules below the text tests of
\* classifyWorkout give 'general'.
NameOnly(activity) ==
  [ activity EXCEPT !.description = <<>>, !.laps = <<>>,
                    !.distance = 10000, !.average_heartrate = 150 ]

\* C29: for the name of every activity a sync run or fetch-details has
\* stored, classifyWorkoutBasic, classifyWorkout without description and
\* the name rules of fetch-details give the same tag.
C29_TagSameOnEveryPath ==
  \A i \in Ids :
    store[i].stravaId # NoId =>
      LET activity == NameOnly(ApiById(store[i].stravaId)) IN
        /\ classifyWorkoutBasic(activity) = classifyWorkout(activity)
        /\ classifyWorkout(activity) = fetchDetailsWorkoutType(activity)

=============================================================================
